---------------------------- MODULE Spec2Model ----------------------------
(***************************************************************************)
(* A model of the sonny-jim JSON parser (src/src/lib.rs): the logos token  *)
(* definitions, the arena with its key interner, the iterative parser      *)
(* step, the synchronous driver `parse` and the cooperative driver         *)
(* `parse_async`.                                                          *)
(*                                                                         *)
(* Bytes are integers 0..255.  Byte offsets are 0-based as in the source;  *)
(* the byte at offset k of a sequence s is s[k+1].  Ranges (spans,         *)
(* key/value ranges) are pairs <<start, end>>.                             *)
(***************************************************************************)
EXTENDS Integers, Sequences, FiniteSets, TLC

VARIABLES
    src,        \* the borrowed source text, as bytes (Arena.scratch.src)
    sync,       \* the run of `parse`: its Parser, its loop-local context, its outcome
    async,      \* the run of `parse_async`: its Parser, the closure's context, its outcome
    local,      \* step_while's local `context` during a poll of parse_async
    i,          \* how many items the poll's iterator `0..YIELD_AFTER` has handed out
    polling,    \* TRUE while a poll of parse_async is executing
    woken,      \* TRUE when the waker was woken and the executor has not yet re-polled
    polls       \* number of polls of parse_async that have started

vars == <<src, sync, async, local, i, polling, woken, polls>>

-----------------------------------------------------------------------------
(* Bytes *)

Ascii ==
    [c \in {"\t", "\n", "\r", " ", "\"", "+", ",", "-", ".", "/", "0", "1", "2", "3", "4",
            "5", "6", "7", "8", "9", ":", "A", "B", "C", "D", "E", "F", "[", "\\", "]",
            "a", "b", "c", "d", "e", "f", "l", "n", "q", "r", "s", "t", "u", "{", "}"} |->
        CASE c = "\t" -> 9   [] c = "\n" -> 10  [] c = "\r" -> 13  [] c = " " -> 32
          [] c = "\"" -> 34  [] c = "+" -> 43   [] c = "," -> 44   [] c = "-" -> 45
          [] c = "." -> 46   [] c = "/" -> 47   [] c = "0" -> 48   [] c = "1" -> 49
          [] c = "2" -> 50   [] c = "3" -> 51   [] c = "4" -> 52   [] c = "5" -> 53
          [] c = "6" -> 54   [] c = "7" -> 55   [] c = "8" -> 56   [] c = "9" -> 57
          [] c = ":" -> 58   [] c = "A" -> 65   [] c = "B" -> 66   [] c = "C" -> 67
          [] c = "D" -> 68   [] c = "E" -> 69   [] c = "F" -> 70   [] c = "[" -> 91
          [] c = "\\" -> 92  [] c = "]" -> 93   [] c = "a" -> 97   [] c = "b" -> 98
          [] c = "c" -> 99   [] c = "d" -> 100  [] c = "e" -> 101  [] c = "f" -> 102
          [] c = "l" -> 108  [] c = "n" -> 110  [] c = "q" -> 113  [] c = "r" -> 114
          [] c = "s" -> 115  [] c = "t" -> 116  [] c = "u" -> 117  [] c = "{" -> 123
          [] c = "}" -> 125]

\* The byte of a one-character literal.
B(c) == Ascii[c]

\* The bytes of a text given as a sequence of one-character strings.
Bytes(cs) == [k \in 1..Len(cs) |-> Ascii[cs[k]]]

\* s[from..to) with 0-based offsets, as Rust's &s[from..to].
Slice(s, from, to) == SubSeq(s, from + 1, to)

Min(S) == CHOOSE x \in S : \A y \in S : x <= y

-----------------------------------------------------------------------------
(* Tokens: #[derive(Logos)] enum Token *)

LeafValues == {"Bool(false)", "Bool(true)", "Null", "Number", "String"}

Tok(kind, leaf) == [kind |-> kind, leaf |-> leaf]

\* #[logos(skip r"[ \t\r\n]+")]
IsSkip(b) == b = B(" ") \/ b = B("\t") \/ b = B("\r") \/ b = B("\n")

\* The offset of the first byte at or after pos that is not skipped (Len(s) if none).
RECURSIVE SkipWs(_, _)
SkipWs(s, pos) ==
    IF pos >= Len(s) THEN Len(s)
    ELSE IF IsSkip(s[pos + 1]) THEN SkipWs(s, pos + 1)
    ELSE pos

\* Whether the literal lit occurs in s at offset at.
Literal(s, at, lit) ==
    /\ at + Len(lit) <= Len(s)
    /\ Slice(s, at, at + Len(lit)) = lit

\* #[regex(r"[-0-9][0-9eE+\-\.]*")]: first and following bytes of a number.
NumberFirst(b) == b = B("-") \/ (b >= B("0") /\ b <= B("9"))

NumberRest(b) ==
    \/ (b >= B("0") /\ b <= B("9"))
    \/ b = B("e") \/ b = B("E") \/ b = B("+") \/ b = B("-") \/ b = B(".")

\* End offset of the longest number match whose first byte is at offset at:
\* NumberEnd(s, at + 1).
RECURSIVE NumberEnd(_, _)
NumberEnd(s, k) ==
    IF k >= Len(s) THEN Len(s)
    ELSE IF NumberRest(s[k + 1]) THEN NumberEnd(s, k + 1)
    ELSE k

\* #[regex(r#""([^"\\]*(\\.)?)*""#)]: scanning from offset k inside a string, the
\* end offset of the match (after the closing quote), or -1 when the text does
\* not match: no closing quote, or a backslash followed by nothing or by a line
\* feed (`.` does not match a line feed).
RECURSIVE StringEnd(_, _)
StringEnd(s, k) ==
    IF k >= Len(s) THEN -1
    ELSE IF s[k + 1] = B("\"") THEN k + 1
    ELSE IF s[k + 1] = B("\\")
         THEN IF k + 1 >= Len(s) \/ s[k + 2] = B("\n") THEN -1 ELSE StringEnd(s, k + 2)
    ELSE StringEnd(s, k + 1)

\* lexer.next() together with lexer.span(): the next token at or after pos.
\* tag "eof" is None, "error" is Some(Err(())), "token" is Some(Ok(token)).
\* A piece of text that matches no token is reported from its first byte; the
\* model gives the error span one byte.  LexAt matches at offset at, the first
\* offset after the skipped bytes.
LexAt(s, at) ==
    LET one(kind) == [tag |-> "token", token |-> Tok(kind, "-"), span |-> <<at, at + 1>>]
        leaf(l, end) == [tag |-> "token", token |-> Tok("Leaf", l), span |-> <<at, end>>]
        error == [tag |-> "error", token |-> Tok("-", "-"), span |-> <<at, at + 1>>]
    IN  IF at >= Len(s)
        THEN [tag |-> "eof", token |-> Tok("-", "-"), span |-> <<Len(s), Len(s)>>]
        ELSE LET b == s[at + 1] IN
             CASE b = B("{") -> one("OpenObject")
               [] b = B("[") -> one("OpenArray")
               [] b = B("}") -> one("CloseObject")
               [] b = B("]") -> one("CloseArray")
               [] b = B(":") -> one("Colon")
               [] b = B(",") -> one("Comma")
               [] NumberFirst(b) -> leaf("Number", NumberEnd(s, at + 1))
               [] b = B("\"") /\ StringEnd(s, at + 1) >= 0 -> leaf("String", StringEnd(s, at + 1))
               [] b = B("f") /\ Literal(s, at, Bytes(<<"f", "a", "l", "s", "e">>)) ->
                    leaf("Bool(false)", at + 5)
               [] b = B("t") /\ Literal(s, at, Bytes(<<"t", "r", "u", "e">>)) ->
                    leaf("Bool(true)", at + 4)
               [] b = B("n") /\ Literal(s, at, Bytes(<<"n", "u", "l", "l">>)) ->
                    leaf("Null", at + 4)
               [] OTHER -> error

LexNext(s, pos) == LexAt(s, SkipWs(s, pos))

-----------------------------------------------------------------------------
(* Values, keys and the arena *)

\* pub enum ValueKind: Leaf(LeafValue), Object { keys, values }, Array { values }.
\* Fields a variant does not have are <<0, 0>> / "-".
LeafKind(l) == [tag |-> "Leaf", leaf |-> l, keys |-> <<0, 0>>, values |-> <<0, 0>>]

ObjectKind(keys, values) == [tag |-> "Object", leaf |-> "-", keys |-> keys, values |-> values]

ArrayKind(values) == [tag |-> "Array", leaf |-> "-", keys |-> <<0, 0>>, values |-> values]

\* pub struct Value { span, kind }
Value(span, kind) == [span |-> span, kind |-> kind]

\* Arena::new
NewArena == [scratch |-> <<>>, table |-> {}, keys |-> <<>>, values |-> <<>>]

\* impl Index<&StringKey> for Scratch: a StringKey <<start, end>> with
\* end < start names scratch[end..start), any other names src[start..end).
Resolve(s, scratch, key) ==
    LET start == key[1]
        end == key[2]
    IN  IF end < start THEN Slice(scratch, end, start) ELSE Slice(s, start, end)

\* memchr::memchr(byte, &s[from..to]): the offset of the first occurrence
\* relative to from, or -1.
Memchr(byte, s, from, to) ==
    LET RECURSIVE first(_)
        first(k) == IF k >= to THEN -1 ELSE IF s[k + 1] = byte THEN k - from ELSE first(k + 1)
    IN  first(from)

\* The value of one hex digit as the hex crate reads it, or -1.
HexVal(b) ==
    CASE b >= B("0") /\ b <= B("9") -> b - B("0")
      [] b >= B("a") /\ b <= B("f") -> b - B("a") + 10
      [] b >= B("A") /\ b <= B("F") -> b - B("A") + 10
      [] OTHER -> -1

\* hex::decode_to_slice(hex_bytes, &mut code) then u16::from_be_bytes(code):
\* the 16-bit value of four hex digits, or -1 when one of them is no hex digit.
HexU16(h) ==
    IF \E k \in 1..4 : HexVal(h[k]) < 0 THEN -1
    ELSE (HexVal(h[1]) * 16 + HexVal(h[2])) * 256 + HexVal(h[3]) * 16 + HexVal(h[4])

\* Mutant of IsChar: surrogates pass for chars.
IsCharAny(code) == TRUE

\* char::from_u32 on a 16-bit value: every value but a surrogate is a char.
IsChar(code) == ~(code >= 55296 /\ code <= 57343)

\* String::push(c): the UTF-8 encoding of a code point below 0x10000.
Utf8(code) ==
    IF code < 128 THEN <<code>>
    ELSE IF code < 2048 THEN <<192 + (code \div 64), 128 + (code % 64)>>
    ELSE <<224 + (code \div 4096), 128 + ((code \div 64) % 64), 128 + (code % 64)>>

\* Mutant of Escape: the letter of the escape is pushed, not the control
\* character it names.
EscapeLetter ==
    [ctrl \in {B("\""), B("\\"), B("/"), B("b"), B("f"), B("n"), B("r"), B("t")} |-> ctrl]

\* The character pushed for each one-byte escape: the arms b'"', b'\\', b'/',
\* b'b', b'f', b'n', b'r', b't' of `match ctrl`.
Escape ==
    [ctrl \in {B("\""), B("\\"), B("/"), B("b"), B("f"), B("n"), B("r"), B("t")} |->
        CASE ctrl = B("\"") -> B("\"")
          [] ctrl = B("\\") -> B("\\")
          [] ctrl = B("/") -> B("/")
          [] ctrl = B("b") -> 8
          [] ctrl = B("f") -> 12
          [] ctrl = B("n") -> 10
          [] ctrl = B("r") -> 13
          [] ctrl = B("t") -> 9]

\* The decode loop of intern_string (lines 180-222) from offset start: each
\* round appends the run before the next backslash and the decoded escape to
\* the scratch.  Returns where the loop stopped, the scratch it left, and
\* whether it broke out normally (ok) or returned Err(()).
RECURSIVE DecodeLoop(_, _, _, _)
RECURSIVE DecodeEscape(_, _, _, _, _)
RECURSIVE DecodeUnicode(_, _, _, _, _)
DecodeLoop(s, start, end, scratch) ==
    DecodeEscape(s, start, end, scratch, Memchr(B("\\"), s, start, end))

\* One round of the loop, escape being what memchr returned (-1 for None).
DecodeEscape(s, start, end, scratch, escape) ==
    IF escape < 0 THEN [ok |-> TRUE, start |-> start, scratch |-> scratch]
    ELSE LET pushed == scratch \o Slice(s, start, start + escape)
             ctrl == s[start + escape + 1 + 1]
             next == start + escape + 2
         IN  IF ctrl = B("u")
             THEN IF Len(s) - next < 4
                  THEN [ok |-> FALSE, start |-> next, scratch |-> pushed]
                  ELSE DecodeUnicode(s, next, end, pushed, HexU16(Slice(s, next, next + 4)))
             ELSE IF ctrl \in DOMAIN Escape
             THEN DecodeLoop(s, next, end, Append(pushed, Escape[ctrl]))
             ELSE [ok |-> FALSE, start |-> next, scratch |-> pushed]

\* The arm b'u' once the four bytes are read, code being what from_str_radix
\* returned (-1 for Err).
DecodeUnicode(s, start, end, scratch, code) ==
    IF code < 0 \/ ~IsChar(code) THEN [ok |-> FALSE, start |-> start, scratch |-> scratch]
    ELSE DecodeLoop(s, start + 4, end, scratch \o Utf8(code))

\* Mutant of Hits: the probe never finds an entry.
HitsNone(s, table, scratch, str) == {}

\* The entries the probe's equality `|key| &scratch[key] == str` accepts.
Hits(s, table, scratch, str) == {key \in table : Resolve(s, scratch, key) = str}

\* Mutant of Probe: a hit returns the key made for this call, not the entry
\* found.
ProbeOwnSpan(s, arena, scratch, scratch_start, span, str) ==
    LET hits == Hits(s, arena.table, scratch, str) IN
    IF hits # {}
    THEN [ok |-> TRUE, key |-> span,
          arena |-> [arena EXCEPT !.scratch = Slice(scratch, 0, scratch_start)]]
    ELSE [ok |-> TRUE, key |-> span,
          arena |-> [arena EXCEPT !.scratch = scratch, !.table = @ \cup {span}]]

\* Mutant of Probe: a hit leaves in the scratch what the call has decoded.
ProbeKeepsScratch(s, arena, scratch, scratch_start, span, str) ==
    LET hits == Hits(s, arena.table, scratch, str) IN
    IF hits # {}
    THEN [ok |-> TRUE, key |-> CHOOSE key \in hits : TRUE,
          arena |-> [arena EXCEPT !.scratch = scratch]]
    ELSE [ok |-> TRUE, key |-> span,
          arena |-> [arena EXCEPT !.scratch = scratch, !.table = @ \cup {span}]]

\* Mutant of Probe: a hit empties the scratch.
ProbeTruncatesAll(s, arena, scratch, scratch_start, span, str) ==
    LET hits == Hits(s, arena.table, scratch, str) IN
    IF hits # {}
    THEN [ok |-> TRUE, key |-> CHOOSE key \in hits : TRUE,
          arena |-> [arena EXCEPT !.scratch = <<>>]]
    ELSE [ok |-> TRUE, key |-> span,
          arena |-> [arena EXCEPT !.scratch = scratch, !.table = @ \cup {span}]]

\* The table probe of intern_string (lines 235-246): a hit returns the entry
\* already in the table and truncates the scratch to scratch_start, a miss
\* inserts StringKey(span).
Probe(s, arena, scratch, scratch_start, span, str) ==
    LET hits == Hits(s, arena.table, scratch, str) IN
    IF hits # {}
    THEN [ok |-> TRUE, key |-> CHOOSE key \in hits : TRUE,
          arena |-> [arena EXCEPT !.scratch = Slice(scratch, 0, scratch_start)]]
    ELSE [ok |-> TRUE, key |-> span,
          arena |-> [arena EXCEPT !.scratch = scratch, !.table = @ \cup {span}]]

\* Mutant of AfterLoop: the string probed for is the whole scratch, not the
\* part of it written by this call.
AfterLoopWholeScratch(s, arena, span, loop) ==
    LET scratch_start == Len(arena.scratch)
        end == span[2] - 1
    IN  IF ~loop.ok
        THEN [ok |-> FALSE, key |-> <<0, 0>>, arena |-> [arena EXCEPT !.scratch = loop.scratch]]
        ELSE IF scratch_start < Len(loop.scratch)
        THEN LET scratch == loop.scratch \o Slice(s, loop.start, end)
             IN  Probe(s, arena, scratch, scratch_start,
                       <<Len(scratch), scratch_start>>,
                       Slice(scratch, 0, Len(scratch)))
        ELSE Probe(s, arena, loop.scratch, scratch_start,
                   <<loop.start, end>>, Slice(s, loop.start, end))

\* Arena::intern_string(span): span is the span of a string token, quotes
\* included.  Returns Ok(key) or Err(()) and the arena as the call left it.
\* AfterLoop is the function from the end of its decode loop on, loop being
\* what the loop returned.
AfterLoop(s, arena, span, loop) ==
    LET scratch_start == Len(arena.scratch)
        end == span[2] - 1
    IN  IF ~loop.ok
        THEN [ok |-> FALSE, key |-> <<0, 0>>, arena |-> [arena EXCEPT !.scratch = loop.scratch]]
        ELSE IF scratch_start < Len(loop.scratch)
        THEN LET scratch == loop.scratch \o Slice(s, loop.start, end)
             IN  Probe(s, arena, scratch, scratch_start,
                       <<Len(scratch), scratch_start>>,
                       Slice(scratch, scratch_start, Len(scratch)))
        ELSE Probe(s, arena, loop.scratch, scratch_start,
                   <<loop.start, end>>, Slice(s, loop.start, end))

intern_string(s, arena, span) ==
    AfterLoop(s, arena, span, DecodeLoop(s, span[1] + 1, span[2] - 1, arena.scratch))

-----------------------------------------------------------------------------
(* The parser: struct Parser, enum ContextItem, struct StackItem, struct Error *)

NoKind == LeafKind("-")

NoValue == Value(<<0, 0>>, NoKind)

NoToken == Tok("-", "-")

\* enum ContextItem.  Fields a variant does not have are <<0, 0>> / NoKind.
WaitingKey == [tag |-> "WaitingKey", span |-> <<0, 0>>, key |-> <<0, 0>>, value |-> NoKind]

WaitingValue == [tag |-> "WaitingValue", span |-> <<0, 0>>, key |-> <<0, 0>>, value |-> NoKind]

KeyContext(span, key) == [tag |-> "Key", span |-> span, key |-> key, value |-> NoKind]

ValueContext(span, kind) == [tag |-> "Value", span |-> span, key |-> <<0, 0>>, value |-> kind]

\* Mutant of ArrayItem: the watermark of an array is the bottom of value_stack.
ArrayItemAtZero(start, vindex) == [span |-> start, kind |-> "Array", vindex |-> 0, kindex |-> 0]

\* struct StackItem { span: start.., kind: Array(vindex) | Object(vindex, kindex) }
ArrayItem(start, vindex) == [span |-> start, kind |-> "Array", vindex |-> vindex, kindex |-> 0]

\* Mutant of ObjectItem: the watermarks of an object are the bottoms of
\* value_stack and key_stack.
ObjectItemAtZero(start, vindex, kindex) ==
    [span |-> start, kind |-> "Object", vindex |-> 0, kindex |-> 0]

ObjectItem(start, vindex, kindex) ==
    [span |-> start, kind |-> "Object", vindex |-> vindex, kindex |-> kindex]

\* struct Error { token, span, stack, context }
Error(token, span, stack, context) ==
    [token |-> token, span |-> span, stack |-> stack, context |-> context]

NoError == Error(NoToken, <<0, 0>>, <<>>, WaitingValue)

\* The Parser that parse and parse_async build; pos is the lexer's position.
NewParser ==
    [arena |-> NewArena, pos |-> 0, stack |-> <<>>, value_stack |-> <<>>, key_stack |-> <<>>]

\* What step returns: Ok(PollParse::Pending(context)), Ok(PollParse::Ready(value))
\* or Err(error), and the parser as the call left it.
Pending(p, context) ==
    [ret |-> "Pending", parser |-> p, context |-> context, value |-> NoValue, error |-> NoError]

Ready(p, value) ==
    [ret |-> "Ready", parser |-> p, context |-> WaitingValue, value |-> value, error |-> NoError]

Err(p, error) ==
    [ret |-> "Err", parser |-> p, context |-> WaitingValue, value |-> NoValue, error |-> error]

\* Mutant of early_eof: the stack is taken before the error records it.
early_eofTaken(s, p, context) ==
    [ret |-> "Err", parser |-> [p EXCEPT !.stack = <<>>], context |-> WaitingValue,
     value |-> NoValue, error |-> Error(NoToken, <<Len(s), Len(s)>>, <<>>, context)]

\* Parser::early_eof: the span is src.len()..src.len(), the stack is taken.
early_eof(s, p, context) ==
    Err([p EXCEPT !.stack = <<>>], Error(NoToken, <<Len(s), Len(s)>>, p.stack, context))

\* Parser::parse_error (the bail! macro): the stack is taken as it is now.
parse_error(p, context, token, span) ==
    Err([p EXCEPT !.stack = <<>>], Error(token, span, p.stack, context))

\* Mutant of token_error: the stack is taken before the error records it.
token_errorTaken(p, context, span) ==
    Err([p EXCEPT !.stack = <<>>], Error(NoToken, span, <<>>, context))

\* Parser::token_error
token_error(p, context, span) ==
    Err([p EXCEPT !.stack = <<>>], Error(NoToken, span, p.stack, context))

\* The arm `ContextItem::WaitingKey if value == Leaf::String` of Token::Leaf,
\* interned being what intern_string returned.
OnKey(p, context, token, span, interned) ==
    IF interned.ok
    THEN Pending([p EXCEPT !.arena = interned.arena], KeyContext(span, interned.key))
    ELSE parse_error([p EXCEPT !.arena = interned.arena], context, token, span)

\* Token::Leaf(value)
OnLeaf(s, p, context, token, span) ==
    IF context.tag = "WaitingValue"
    THEN Pending(p, ValueContext(span, LeafKind(token.leaf)))
    ELSE IF context.tag = "WaitingKey" /\ token.leaf = "String"
    THEN OnKey(p, context, token, span, intern_string(s, p.arena, span))
    ELSE parse_error(p, context, token, span)

\* Mutant of OnOpenObject: the two watermarks are recorded in each other's
\* place.
OnOpenObjectSwapped(p, context, token, span) ==
    IF context.tag = "WaitingValue"
    THEN Pending([p EXCEPT !.stack =
                      Append(@, ObjectItem(span[1], Len(p.key_stack), Len(p.value_stack)))],
                 WaitingKey)
    ELSE parse_error(p, context, token, span)

\* Token::OpenObject
OnOpenObject(p, context, token, span) ==
    IF context.tag = "WaitingValue"
    THEN Pending([p EXCEPT !.stack =
                      Append(@, ObjectItem(span[1], Len(p.value_stack), Len(p.key_stack)))],
                 WaitingKey)
    ELSE parse_error(p, context, token, span)

\* Token::OpenArray
OnOpenArray(p, context, token, span) ==
    IF context.tag = "WaitingValue"
    THEN Pending([p EXCEPT !.stack = Append(@, ArrayItem(span[1], Len(p.value_stack)))],
                 WaitingValue)
    ELSE parse_error(p, context, token, span)

\* Mutant of Pop: the top item stays on the stack.
PopNothing(stack) == stack

\* `stack.pop()`: the stack without its top item.
Pop(stack) == SubSeq(stack, 1, Len(stack) - 1)

\* Mutant of AtWatermark: a close token is taken for an empty container
\* whatever value_stack holds.
AtWatermarkAlways(p, top) == TRUE

\* `value_stack.len() == vindex as usize` (lines 397 and 456): no child of the
\* container on top of the stack is on value_stack.
AtWatermark(p, top) == Len(p.value_stack) = top.vindex

\* The span given to a container closed after a value (lines 406-426 and
\* 462-477): the pattern `ContextItem::Value { span, value: kind }` rebinds
\* `span`, so it is the span held by the context, that of the last child,
\* and not `start..span.end` computed at lines 394 and 453.
ClosedSpan(start, span, context) == context.span

\* Mutant of OnCloseObject: the ranges of a closed object are counted from the
\* watermarks of the working stacks, not from the ends of the arena's vectors.
OnCloseObjectFromWatermark(p, context, token, span) ==
    IF p.stack = <<>> THEN parse_error(p, context, token, span)
    ELSE LET top == p.stack[Len(p.stack)]
             popped == [p EXCEPT !.stack = Pop(@)]
         IN  IF top.kind # "Object" THEN parse_error(p, context, token, span)
             ELSE IF context.tag = "WaitingKey" /\ AtWatermark(p, top)
             THEN Pending(popped,
                          ValueContext(<<top.span, span[2]>>, ObjectKind(<<0, 0>>, <<0, 0>>)))
             ELSE IF context.tag = "Value"
             THEN LET pushed == Append(p.value_stack, Value(context.span, context.value))
                      values == p.arena.values \o Slice(pushed, top.vindex, Len(pushed))
                      keys == p.arena.keys \o Slice(p.key_stack, top.kindex, Len(p.key_stack))
                  IN  Pending([popped EXCEPT !.value_stack = Slice(pushed, 0, top.vindex),
                                             !.key_stack = Slice(@, 0, top.kindex),
                                             !.arena.values = values,
                                             !.arena.keys = keys],
                              ValueContext(ClosedSpan(top.span, span, context),
                                           ObjectKind(<<top.kindex, Len(p.key_stack)>>,
                                                      <<top.vindex, Len(pushed)>>)))
             ELSE parse_error(popped, context, token, span)

\* Token::CloseObject
OnCloseObject(p, context, token, span) ==
    IF p.stack = <<>> THEN parse_error(p, context, token, span)
    ELSE LET top == p.stack[Len(p.stack)]
             popped == [p EXCEPT !.stack = Pop(@)]
         IN  IF top.kind # "Object" THEN parse_error(p, context, token, span)
             ELSE IF context.tag = "WaitingKey" /\ AtWatermark(p, top)
             THEN Pending(popped,
                          ValueContext(<<top.span, span[2]>>, ObjectKind(<<0, 0>>, <<0, 0>>)))
             ELSE IF context.tag = "Value"
             THEN LET pushed == Append(p.value_stack, Value(context.span, context.value))
                      vi == Len(p.arena.values)
                      values == p.arena.values \o Slice(pushed, top.vindex, Len(pushed))
                      ki == Len(p.arena.keys)
                      keys == p.arena.keys \o Slice(p.key_stack, top.kindex, Len(p.key_stack))
                  IN  Pending([popped EXCEPT !.value_stack = Slice(pushed, 0, top.vindex),
                                             !.key_stack = Slice(@, 0, top.kindex),
                                             !.arena.values = values,
                                             !.arena.keys = keys],
                              ValueContext(ClosedSpan(top.span, span, context),
                                           ObjectKind(<<ki, Len(keys)>>, <<vi, Len(values)>>)))
             ELSE parse_error(popped, context, token, span)

\* Mutant of OnCloseArray: the children of a closed array replace what
\* arena.values held, they are not appended to it.
OnCloseArrayOverwrites(p, context, token, span) ==
    IF p.stack = <<>> THEN parse_error(p, context, token, span)
    ELSE LET top == p.stack[Len(p.stack)]
             popped == [p EXCEPT !.stack = Pop(@)]
         IN  IF top.kind # "Array" THEN parse_error(p, context, token, span)
             ELSE IF context.tag = "WaitingValue" /\ AtWatermark(p, top)
             THEN Pending(popped, ValueContext(<<top.span, span[2]>>, ArrayKind(<<0, 0>>)))
             ELSE IF context.tag = "Value"
             THEN LET pushed == Append(p.value_stack, Value(context.span, context.value))
                      drained == Slice(pushed, top.vindex, Len(pushed))
                  IN  Pending([popped EXCEPT !.value_stack = Slice(pushed, 0, top.vindex),
                                             !.arena.values = drained],
                              ValueContext(ClosedSpan(top.span, span, context),
                                           ArrayKind(<<Len(p.arena.values),
                                                       Len(p.arena.values) + Len(drained)>>)))
             ELSE parse_error(popped, context, token, span)

\* Mutant of OnCloseArray: the range of a closed array is counted from the
\* watermark of value_stack, not from the end of arena.values.
OnCloseArrayFromWatermark(p, context, token, span) ==
    IF p.stack = <<>> THEN parse_error(p, context, token, span)
    ELSE LET top == p.stack[Len(p.stack)]
             popped == [p EXCEPT !.stack = Pop(@)]
         IN  IF top.kind # "Array" THEN parse_error(p, context, token, span)
             ELSE IF context.tag = "WaitingValue" /\ AtWatermark(p, top)
             THEN Pending(popped, ValueContext(<<top.span, span[2]>>, ArrayKind(<<0, 0>>)))
             ELSE IF context.tag = "Value"
             THEN LET pushed == Append(p.value_stack, Value(context.span, context.value))
                      values == p.arena.values \o Slice(pushed, top.vindex, Len(pushed))
                  IN  Pending([popped EXCEPT !.value_stack = Slice(pushed, 0, top.vindex),
                                             !.arena.values = values],
                              ValueContext(ClosedSpan(top.span, span, context),
                                           ArrayKind(<<top.vindex, Len(pushed)>>)))
             ELSE parse_error(popped, context, token, span)

\* Token::CloseArray
OnCloseArray(p, context, token, span) ==
    IF p.stack = <<>> THEN parse_error(p, context, token, span)
    ELSE LET top == p.stack[Len(p.stack)]
             popped == [p EXCEPT !.stack = Pop(@)]
         IN  IF top.kind # "Array" THEN parse_error(p, context, token, span)
             ELSE IF context.tag = "WaitingValue" /\ AtWatermark(p, top)
             THEN Pending(popped, ValueContext(<<top.span, span[2]>>, ArrayKind(<<0, 0>>)))
             ELSE IF context.tag = "Value"
             THEN LET pushed == Append(p.value_stack, Value(context.span, context.value))
                      vi == Len(p.arena.values)
                      values == p.arena.values \o Slice(pushed, top.vindex, Len(pushed))
                  IN  Pending([popped EXCEPT !.value_stack = Slice(pushed, 0, top.vindex),
                                             !.arena.values = values],
                              ValueContext(ClosedSpan(top.span, span, context),
                                           ArrayKind(<<vi, Len(values)>>)))
             ELSE parse_error(popped, context, token, span)

\* Mutant of OnColon: a key already on key_stack is not pushed again.
OnColonUnique(p, context, token, span) ==
    IF context.tag = "Key" /\ p.stack # <<>>
    THEN IF p.stack[Len(p.stack)].kind = "Object"
         THEN Pending([p EXCEPT !.key_stack =
                           IF \E n \in 1..Len(@) : @[n] = context.key
                           THEN @ ELSE Append(@, context.key)],
                      WaitingValue)
         ELSE parse_error(p, KeyContext(context.span, context.key), token, span)
    ELSE parse_error(p, context, token, span)

\* Token::Colon
OnColon(p, context, token, span) ==
    IF context.tag = "Key" /\ p.stack # <<>>
    THEN IF p.stack[Len(p.stack)].kind = "Object"
         THEN Pending([p EXCEPT !.key_stack = Append(@, context.key)], WaitingValue)
         ELSE parse_error(p, KeyContext(context.span, context.key), token, span)
    ELSE parse_error(p, context, token, span)

\* Mutant of OnComma: the value before the comma is not pushed on value_stack.
OnCommaForgets(p, context, token, span) ==
    IF context.tag = "Value" /\ p.stack # <<>>
    THEN Pending(p, IF p.stack[Len(p.stack)].kind = "Object" THEN WaitingKey ELSE WaitingValue)
    ELSE parse_error(p, context, token, span)

\* Token::Comma
OnComma(p, context, token, span) ==
    IF context.tag = "Value" /\ p.stack # <<>>
    THEN Pending([p EXCEPT !.value_stack = Append(@, Value(context.span, context.value))],
                 IF p.stack[Len(p.stack)].kind = "Object" THEN WaitingKey ELSE WaitingValue)
    ELSE parse_error(p, context, token, span)

\* The match of Parser::step on what the lexer returned: lex is
\* lexer.next() with lexer.span().
OnNext(s, p, context, lex) ==
    LET q == [p EXCEPT !.pos = lex.span[2]]
        token == lex.token
        span == lex.span
    IN  CASE lex.tag = "error" -> token_error(q, context, span)
          [] lex.tag = "eof" ->
                IF context.tag = "Value" /\ p.stack = <<>>
                THEN Ready(q, Value(context.span, context.value))
                ELSE early_eof(s, q, context)
          [] lex.tag = "token" /\ token.kind = "Leaf" -> OnLeaf(s, q, context, token, span)
          [] lex.tag = "token" /\ token.kind = "OpenObject" -> OnOpenObject(q, context, token, span)
          [] lex.tag = "token" /\ token.kind = "OpenArray" -> OnOpenArray(q, context, token, span)
          [] lex.tag = "token" /\ token.kind = "CloseObject" -> OnCloseObject(q, context, token, span)
          [] lex.tag = "token" /\ token.kind = "CloseArray" -> OnCloseArray(q, context, token, span)
          [] lex.tag = "token" /\ token.kind = "Colon" -> OnColon(q, context, token, span)
          [] lex.tag = "token" /\ token.kind = "Comma" -> OnComma(q, context, token, span)

\* Parser::step(context): read one token and act on it.
step(s, p, context) == OnNext(s, p, context, LexNext(s, p.pos))

-----------------------------------------------------------------------------
(* The drivers: parse (lines 535-556) and parse_async (lines 560-586) *)

\* The poll budget of parse_async, `const YIELD_AFTER: usize = 4096`, scaled
\* down so that inputs of a few tokens span several polls.
YIELD_AFTER == 2

\* A driver before its first step: a fresh Parser and context WaitingValue.
NewRun ==
    [parser |-> NewParser, context |-> WaitingValue, status |-> "running",
     value |-> NoValue, error |-> NoError]

\* The driver's state after a step that returned r.
Returned(run, r) ==
    CASE r.ret = "Pending" -> [run EXCEPT !.parser = r.parser, !.context = r.context]
      [] r.ret = "Ready" -> [run EXCEPT !.parser = r.parser, !.status = "ok", !.value = r.value]
      [] r.ret = "Err" -> [run EXCEPT !.parser = r.parser, !.status = "err", !.error = r.error]

\* One iteration of the loop of parse: `match parser.step(context)?`.
SyncStep ==
    /\ sync.status = "running"
    /\ sync' = Returned(sync, step(src, sync.parser, sync.context))
    /\ UNCHANGED <<src, async, local, i, polling, woken, polls>>

\* Mutant of Poll: the closure goes on with the budget the last poll left.
PollKeepsBudget ==
    /\ sync.status # "running"
    /\ async.status = "running"
    /\ ~polling
    /\ polls = 0 \/ woken
    /\ polling' = TRUE
    /\ woken' = FALSE
    /\ local' = async.context
    /\ polls' = polls + 1
    /\ UNCHANGED <<src, sync, async, i>>

\* The executor polls the future of parse_async: the first time, and again
\* after a wake.  The closure starts `i = 0..YIELD_AFTER` and hands
\* `context.clone()` to step_while.  parse is a blocking call and the two
\* runs share nothing but the immutable source, so the future is first polled
\* once parse has returned.
Poll ==
    /\ sync.status # "running"
    /\ async.status = "running"
    /\ ~polling
    /\ polls = 0 \/ woken
    /\ polling' = TRUE
    /\ woken' = FALSE
    /\ i' = 0
    /\ local' = async.context
    /\ polls' = polls + 1
    /\ UNCHANGED <<src, sync, async>>

\* Mutant of KeptContext: the closure keeps the context it started the poll with.
KeptContextStale(kept, c) == kept

\* The context the closure keeps when step_while returns Pending(c):
\* `PollParse::Pending(c) => context = c`.
KeptContext(kept, c) == c

\* One iteration of step_while inside a poll: `i.next()` is Some, then
\* `self.step(context)?`.  Ready and Err end the poll with Poll::Ready.
AsyncStep ==
    /\ polling
    /\ i < YIELD_AFTER
    /\ i' = i + 1
    /\ LET r == step(src, async.parser, local) IN
        /\ async' = [Returned(async, r) EXCEPT !.context = async.context]
        /\ local' = IF r.ret = "Pending" THEN r.context ELSE local
        /\ polling' = (r.ret = "Pending")
    /\ UNCHANGED <<src, sync, woken, polls>>

\* Mutant of Yield: the closure returns Poll::Pending without waking the waker.
YieldNoWake ==
    /\ polling
    /\ i = YIELD_AFTER
    /\ async' = [async EXCEPT !.context = KeptContext(@, local)]
    /\ polling' = FALSE
    /\ UNCHANGED <<src, sync, local, i, polls, woken>>

\* `i.next()` is None: step_while returns Pending(context), the closure keeps
\* that context, wakes the waker and returns Poll::Pending.
Yield ==
    /\ polling
    /\ i = YIELD_AFTER
    /\ async' = [async EXCEPT !.context = KeptContext(@, local)]
    /\ woken' = TRUE
    /\ polling' = FALSE
    /\ UNCHANGED <<src, sync, local, i, polls>>

Next == SyncStep \/ Poll \/ AsyncStep \/ Yield

-----------------------------------------------------------------------------
(* The JSON grammar over token kinds, by recursive descent.  It is the      *)
(* yardstick the parser is compared with and the guide that grows inputs.   *)

\* The kind of token a lexeme is: by its first byte; "Skip" for white space.
PieceKind(piece) ==
    LET b == piece[1] IN
    CASE IsSkip(b) -> "Skip"
      [] b = B("{") -> "OpenObject"
      [] b = B("[") -> "OpenArray"
      [] b = B("}") -> "CloseObject"
      [] b = B("]") -> "CloseArray"
      [] b = B(":") -> "Colon"
      [] b = B(",") -> "Comma"
      [] b = B("\"") -> "String"
      [] OTHER -> "Leaf"

\* ValueEnd(t, k): the index after the JSON value that starts at index k of the
\* sequence of token kinds t; 0 when no value starts there; -1 when t ends
\* before the value is complete.  ElementsEnd and MembersEnd: the same for the
\* rest of an array after `[` or `,`, and of an object after `{` or `,`.
RECURSIVE ValueEnd(_, _), ElementsEnd(_, _), MembersEnd(_, _)
ValueEnd(t, k) ==
    IF k > Len(t) THEN -1
    ELSE CASE t[k] \in {"Leaf", "String"} -> k + 1
           [] t[k] = "OpenArray" ->
                IF k + 1 > Len(t) THEN -1
                ELSE IF t[k + 1] = "CloseArray" THEN k + 2
                ELSE ElementsEnd(t, k + 1)
           [] t[k] = "OpenObject" ->
                IF k + 1 > Len(t) THEN -1
                ELSE IF t[k + 1] = "CloseObject" THEN k + 2
                ELSE MembersEnd(t, k + 1)
           [] OTHER -> 0

ElementsEnd(t, k) ==
    LET e == ValueEnd(t, k) IN
    IF e <= 0 THEN e
    ELSE IF e > Len(t) THEN -1
    ELSE IF t[e] = "Comma" THEN ElementsEnd(t, e + 1)
    ELSE IF t[e] = "CloseArray" THEN e + 1
    ELSE 0

MembersEnd(t, k) ==
    IF k > Len(t) THEN -1
    ELSE IF t[k] # "String" THEN 0
    ELSE IF k + 1 > Len(t) THEN -1
    ELSE IF t[k + 1] # "Colon" THEN 0
    ELSE LET e == ValueEnd(t, k + 2) IN
         IF e <= 0 THEN e
         ELSE IF e > Len(t) THEN -1
         ELSE IF t[e] = "Comma" THEN MembersEnd(t, e + 1)
         ELSE IF t[e] = "CloseObject" THEN e + 1
         ELSE 0

\* t is exactly one JSON value.
WellFormed(t) == ValueEnd(t, 1) = Len(t) + 1

\* t is a proper prefix of a JSON value.
Unfinished(t) == ValueEnd(t, 1) = -1

-----------------------------------------------------------------------------
(* Inputs *)

\* The concatenation of a sequence of byte sequences.
RECURSIVE Concat(_)
Concat(pieces) ==
    IF pieces = <<>> THEN <<>> ELSE Head(pieces) \o Concat(Tail(pieces))

\* The token kinds of a sequence of lexemes, white space dropped.
RECURSIVE Kinds(_)
Kinds(pieces) ==
    IF pieces = <<>> THEN <<>>
    ELSE IF PieceKind(Head(pieces)) = "Skip" THEN Kinds(Tail(pieces))
    ELSE <<PieceKind(Head(pieces))>> \o Kinds(Tail(pieces))

\* Every sequence of at most n lexemes of P.
Free(P, n) == UNION {[1..k -> P] : k \in 0..n}

\* Every sequence of exactly n lexemes of P that the grammar does not reject
\* before its last lexeme: a JSON value or a proper prefix of one, followed by
\* any one lexeme.  The parser stops at the first token it rejects, so these
\* are the inputs on which it reads every token.
RECURSIVE Grown(_, _)
Grown(P, n) ==
    IF n = 0 THEN {<<>>}
    ELSE {Append(ps, x) :
            ps \in {q \in Grown(P, n - 1) : Unfinished(Kinds(q)) \/ WellFormed(Kinds(q))},
            x \in P}

\* The texts of the sequences of at most free lexemes and white spaces, and
\* of the grown sequences of at most n lexemes.
Texts(P, W, free, n) ==
    {Concat(ps) : ps \in Free(P \cup W, free) \cup UNION {Grown(P, k) : k \in 0..n}}

\* The number of lexemes of a source text: of any text, and of one grown
\* along the grammar.
MaxFree == 3

MaxPieces == 6

\* Structural tokens, a number leaf, a plain string, a string holding the
\* escape of a lone surrogate.
Lexemes ==
    {Bytes(<<"[">>), Bytes(<<"]">>), Bytes(<<"{">>), Bytes(<<"}">>), Bytes(<<":">>),
     Bytes(<<",">>), Bytes(<<"1">>), Bytes(<<"\"", "a", "\"">>),
     Bytes(<<"\"", "\\", "u", "D", "8", "0", "0", "\"">>)}

White == {Bytes(<<" ">>)}

Sources == Texts(Lexemes, White, MaxFree, MaxPieces)

InitOn(S) ==
    /\ src \in S
    /\ sync = NewRun
    /\ async = NewRun
    /\ local = WaitingValue
    /\ i = 0
    /\ polling = FALSE
    /\ woken = FALSE
    /\ polls = 0

Init == InitOn(Sources)

Spec == Init /\ [][Next]_vars

-----------------------------------------------------------------------------
(* What the source text says, read independently of the parser's state *)

\* The tokens of s from offset pos on, each with its span; the last entry is
\* the end of input ("eof") or the first piece of text that is no token.
RECURSIVE LexAll(_, _)
LexAll(s, pos) ==
    LET l == LexNext(s, pos) IN
    IF l.tag # "token" THEN <<l>> ELSE <<l>> \o LexAll(s, l.span[2])

\* The tokens of s, when all of s is tokens.
Lexes(s) == LET all == LexAll(s, 0) IN all[Len(all)].tag = "eof"

TokensOf(s) == LET all == LexAll(s, 0) IN SubSeq(all, 1, Len(all) - 1)

\* The grammar's kind of a token.
KindOf(token) ==
    IF token.kind # "Leaf" THEN token.kind
    ELSE IF token.leaf = "String" THEN "String" ELSE "Leaf"

KindsOf(s) == LET toks == TokensOf(s) IN [n \in 1..Len(toks) |-> KindOf(toks[n].token)]

\* The spans of the object keys of s in source order: the string tokens that
\* stand directly in an object, after its opening brace or after a comma.
KeySpans(s) ==
    LET toks == TokensOf(s)
        RECURSIVE from(_, _)
        from(n, open) ==
            IF n > Len(toks) THEN <<>>
            ELSE LET kind == toks[n].token.kind IN
                 CASE kind = "OpenObject" -> from(n + 1, Append(open, "Object"))
                   [] kind = "OpenArray" -> from(n + 1, Append(open, "Array"))
                   [] kind \in {"CloseObject", "CloseArray"} ->
                        from(n + 1, SubSeq(open, 1, Len(open) - 1))
                   [] /\ KindOf(toks[n].token) = "String"
                      /\ n > 1 /\ toks[n - 1].token.kind \in {"OpenObject", "Comma"}
                      /\ open # <<>> /\ open[Len(open)] = "Object" ->
                        <<toks[n].span>> \o from(n + 1, open)
                   [] OTHER -> from(n + 1, open)
    IN  from(1, <<>>)

\* The decoded form of the content c of a JSON string (the bytes between the
\* quotes), escape by escape: ok is FALSE for a backslash followed by
\* anything but " \ / b f n r t u, for \u not followed by four hex digits, and
\* for \uXXXX naming a surrogate.
RECURSIVE Decoded(_)
Decoded(c) ==
    LET bad == [ok |-> FALSE, str |-> <<>>]
        then(bytes, rest) ==
            LET d == Decoded(rest) IN
            IF d.ok THEN [ok |-> TRUE, str |-> bytes \o d.str] ELSE bad
        hex(b) ==
            IF b \in 48..57 THEN b - 48
            ELSE IF b \in 97..102 THEN b - 87
            ELSE IF b \in 65..70 THEN b - 55
            ELSE -1
    IN  IF c = <<>> THEN [ok |-> TRUE, str |-> <<>>]
        ELSE IF c[1] # B("\\") THEN then(<<c[1]>>, Tail(c))
        ELSE IF Len(c) < 2 THEN bad
        ELSE LET rest == SubSeq(c, 3, Len(c)) IN
             CASE c[2] \in {B("\""), B("\\"), B("/")} -> then(<<c[2]>>, rest)
               [] c[2] = B("b") -> then(<<8>>, rest)
               [] c[2] = B("f") -> then(<<12>>, rest)
               [] c[2] = B("n") -> then(<<10>>, rest)
               [] c[2] = B("r") -> then(<<13>>, rest)
               [] c[2] = B("t") -> then(<<9>>, rest)
               [] c[2] = B("u") ->
                    IF Len(c) < 6 \/ \E k \in 3..6 : hex(c[k]) < 0 THEN bad
                    ELSE LET code == hex(c[3]) * 4096 + hex(c[4]) * 256
                                     + hex(c[5]) * 16 + hex(c[6])
                         IN  IF code \in 55296..57343 THEN bad
                             ELSE then(Utf8(code), SubSeq(c, 7, Len(c)))
               [] OTHER -> bad

\* The decoded form of the key whose token has the given span in s.
DecodedKey(s, span) == Decoded(Slice(s, span[1] + 1, span[2] - 1))

\* Every object key of s decodes.
KeysDecode(s) ==
    LET spans == KeySpans(s) IN \A n \in 1..Len(spans) : DecodedKey(s, spans[n]).ok

\* The tokens of s that end at or before offset at.
TokensBefore(s, at) == SelectSeq(TokensOf(s), LAMBDA l : l.span[2] <= at)

\* What follows those tokens: the next token, the end of input, or a piece of
\* text that is no token.
LexAfter(s, at) ==
    LET pre == TokensBefore(s, at)
    IN  LexNext(s, IF pre = <<>> THEN 0 ELSE pre[Len(pre)].span[2])

\* The containers a sequence of tokens leaves open, in opening order, each
\* with its kind and the offset of its opening token.
RECURSIVE OpenContainers(_)
OpenContainers(toks) ==
    IF toks = <<>> THEN <<>>
    ELSE LET last == toks[Len(toks)]
             open == OpenContainers(SubSeq(toks, 1, Len(toks) - 1))
         IN  CASE last.token.kind = "OpenObject" ->
                    Append(open, [kind |-> "Object", span |-> last.span[1]])
               [] last.token.kind = "OpenArray" ->
                    Append(open, [kind |-> "Array", span |-> last.span[1]])
               [] last.token.kind \in {"CloseObject", "CloseArray"} ->
                    SubSeq(open, 1, Len(open) - 1)
               [] OTHER -> open

\* The kind and opening offset of each item of an open-container stack.
Shape(stack) == [n \in 1..Len(stack) |-> [kind |-> stack[n].kind, span |-> stack[n].span]]

\* What the grammar expects after a sequence of tokens it has not rejected:
\* the tag of the parser's context.
ExpectedAfter(toks) ==
    IF toks = <<>> THEN "WaitingValue"
    ELSE LET last == toks[Len(toks)]
             before == SubSeq(toks, 1, Len(toks) - 1)
             open == OpenContainers(before)
             inObject == open # <<>> /\ open[Len(open)].kind = "Object"
         IN  CASE last.token.kind = "OpenObject" -> "WaitingKey"
               [] last.token.kind = "OpenArray" -> "WaitingValue"
               [] last.token.kind = "Colon" -> "WaitingValue"
               [] last.token.kind = "Comma" -> IF inObject THEN "WaitingKey" ELSE "WaitingValue"
               [] last.token.kind = "Leaf" /\ last.token.leaf = "String" /\ inObject
                  /\ before[Len(before)].token.kind \in {"OpenObject", "Comma"} -> "Key"
               [] OTHER -> "Value"

\* The kind of the last token of s that ends at or before offset at ("-" when
\* there is none).
KindBefore(s, at) ==
    LET pre == TokensBefore(s, at)
    IN  IF pre = <<>> THEN "-" ELSE pre[Len(pre)].token.kind

\* What a step that reads a close token must do, when the parser p with
\* context context is followed by the parser q with context after, the run
\* having failed or not: a close that directly follows the opening token of
\* its kind makes an empty container that spans both tokens and leaves the
\* arena as it is: a close that follows a comma fails.
ClosesRight(s, p, context, q, after, failed) ==
    LET lex == LexNext(s, p.pos)
        open == IF lex.token.kind = "CloseArray" THEN "OpenArray" ELSE "OpenObject"
        empty == IF lex.token.kind = "CloseArray"
                 THEN ArrayKind(<<0, 0>>) ELSE ObjectKind(<<0, 0>>, <<0, 0>>)
        before == KindBefore(s, p.pos)
    IN  (lex.tag = "token" /\ lex.token.kind \in {"CloseArray", "CloseObject"}) =>
            /\ before = open =>
                  /\ ~failed
                  /\ after = ValueContext(<<p.stack[Len(p.stack)].span, lex.span[2]>>, empty)
                  /\ q.arena = p.arena
                  /\ q.value_stack = p.value_stack /\ q.key_stack = p.key_stack
                  /\ q.stack = SubSeq(p.stack, 1, Len(p.stack) - 1)
            /\ before = "Comma" => failed
            /\ (context.tag \in {"WaitingValue", "WaitingKey"} /\ ~failed) => before = open

\* The offsets of the bytes of s that are not white space.
Inked(s) == {k \in 0..(Len(s) - 1) : ~IsSkip(s[k + 1])}

Max(S) == CHOOSE x \in S : \A y \in S : x >= y

\* Both runs are over.
Done == sync.status # "running" /\ async.status # "running"

-----------------------------------------------------------------------------
(* Deeply nested arrays *)

MaxDepth == 8

\* n opening brackets followed by n closing brackets.
Nested(n) == [k \in 1..(2 * n) |-> IF k <= n THEN B("[") ELSE B("]")]

DeepSources == {Nested(n) : n \in 1..MaxDepth}

InitDeep == InitOn(DeepSources)

SpecDeep == InitDeep /\ [][Next]_vars

-----------------------------------------------------------------------------
(* Objects whose keys repeat, plain and escaped *)

Quoted(content) == <<B("\"")>> \o content \o <<B("\"")>>

\* { k1 : 1 , k2 : 1 , ... }
RECURSIVE Members(_)
Members(ks) ==
    IF ks = <<>> THEN <<>>
    ELSE Head(ks) \o Bytes(<<":", "1">>)
         \o (IF Len(ks) > 1 THEN <<B(",")>> ELSE <<>>) \o Members(Tail(ks))

FlatObject(ks) == <<B("{")>> \o Members(ks) \o <<B("}")>>

\* { k1 : { k2 : { ... : 1 } } }
RECURSIVE NestedObject(_)
NestedObject(ks) ==
    IF ks = <<>> THEN <<B("1")>>
    ELSE <<B("{")>> \o Head(ks) \o <<B(":")>> \o NestedObject(Tail(ks)) \o <<B("}")>>

\* The number of keys of an input.
MaxKeys == 3

\* Keys that decode to `a` (plain, escaped) and to a line feed (two escapes).
KeyLexemes ==
    {Quoted(Bytes(<<"a">>)),
     Quoted(Bytes(<<"\\", "u", "0", "0", "6", "1">>)),
     Quoted(Bytes(<<"\\", "n">>)),
     Quoted(Bytes(<<"\\", "u", "0", "0", "0", "A">>))}

KeySources ==
    LET kss == UNION {[1..n -> KeyLexemes] : n \in 1..MaxKeys}
    IN  {FlatObject(ks) : ks \in kss} \cup {NestedObject(ks) : ks \in kss}

InitKeys == InitOn(KeySources)

SpecKeys == InitKeys /\ [][Next]_vars

-----------------------------------------------------------------------------
(* Objects whose keys hold every kind of escape, valid or not *)

\* The number of units (plain bytes, escapes) of a key.
MaxUnits == 2

\* A plain byte, the eight one-letter escapes, \u escapes of one, two and
\* three UTF-8 bytes.
GoodUnits ==
    {Bytes(<<"a">>), Bytes(<<"\\", "\"">>), Bytes(<<"\\", "\\">>), Bytes(<<"\\", "/">>),
     Bytes(<<"\\", "b">>), Bytes(<<"\\", "f">>), Bytes(<<"\\", "n">>), Bytes(<<"\\", "r">>),
     Bytes(<<"\\", "t">>), Bytes(<<"\\", "u", "0", "0", "6", "1">>),
     Bytes(<<"\\", "u", "0", "0", "e", "9">>), Bytes(<<"\\", "u", "2", "0", "A", "C">>)}

\* An unknown escape, a \u cut short, a \u with a digit that is no hex digit,
\* the two ends of the surrogate range.
BadUnits ==
    {Bytes(<<"\\", "q">>), Bytes(<<"\\", "u", "1", "2">>),
     Bytes(<<"\\", "u", "0", "0", "q", "0">>),
     Bytes(<<"\\", "u", "D", "8", "0", "0">>), Bytes(<<"\\", "u", "d", "f", "f", "f">>)}

EscapedKeys ==
    {Quoted(Concat(us)) : us \in UNION {[1..n -> GoodUnits \cup BadUnits] : n \in 0..MaxUnits}}

\* An object with one key, and one with that key after the key "\t".
EscapeSources ==
    {FlatObject(<<k>>) : k \in EscapedKeys}
        \cup {FlatObject(<<Quoted(Bytes(<<"\\", "t">>)), k>>) : k \in EscapedKeys}

InitEscapes == InitOn(EscapeSources)

SpecEscapes == InitEscapes /\ [][Next]_vars

\* The StringKeys a run has been given for the keys it has passed, in source
\* order when the source holds no nested object.
HandlesOf(run) == run.parser.arena.keys \o run.parser.key_stack

\* resolve(key) in the arena of a run.
ResolveIn(run, key) == Resolve(src, run.parser.arena.scratch, key)

\* The entries FmtValue::fmt hands to debug_map for an object (fmt.rs, lines
\* 31-44): `zip(keys, values)` over the object's two ranges, each key resolved
\* by `&self.arena[k]`.
Entries(s, arena, object) ==
    LET keys == Slice(arena.keys, object.keys[1], object.keys[2])
        values == Slice(arena.values, object.values[1], object.values[2])
        n == IF Len(keys) < Len(values) THEN Len(keys) ELSE Len(values)
    IN  [m \in 1..n |-> [key |-> Resolve(s, arena.scratch, keys[m]), value |-> values[m]]]

\* The map a sequence of entries makes when they are inserted in order, a
\* later entry replacing an earlier one of the same key.
RECURSIVE Inserted(_)
Inserted(entries) ==
    IF entries = <<>> THEN <<>>
    ELSE LET last == entries[Len(entries)]
             before == Inserted(SubSeq(entries, 1, Len(entries) - 1))
         IN  [k \in DOMAIN before \cup {last.key} |->
                 IF k = last.key THEN last.value ELSE before[k]]

\* The spans of the keys of s a parser at p has read.
KeysPassed(s, p) == SelectSeq(KeySpans(s), LAMBDA span : span[2] <= p.pos)

\* The key token of the given span holds a backslash.
HasEscape(s, span) == Memchr(B("\\"), s, span[1], span[2]) >= 0

\* The strings the entries of the table of an arena resolve to.
TableStrings(s, arena) == {Resolve(s, arena.scratch, key) : key \in arena.table}

RECURSIVE SumLen(_)
SumLen(S) ==
    IF S = {} THEN 0
    ELSE LET x == CHOOSE x \in S : TRUE IN Len(x) + SumLen(S \ {x})

\* A step from parser p in the given context to parser q that reads a key
\* with an escape whose decoded string is in the table leaves the scratch and
\* the table as they were.
HitKeepsScratch(s, p, context, q) ==
    LET lex == LexNext(s, p.pos) IN
    (/\ context.tag = "WaitingKey"
     /\ lex.tag = "token" /\ lex.token = Tok("Leaf", "String")
     /\ HasEscape(s, lex.span)
     /\ DecodedKey(s, lex.span).ok
     /\ DecodedKey(s, lex.span).str \in TableStrings(s, p.arena)) =>
        /\ Len(q.arena.scratch) = Len(p.arena.scratch)
        /\ q.arena.scratch = p.arena.scratch
        /\ q.arena.table = p.arena.table

\* From arena a to arena b the scratch has not shrunk and every key of the
\* table is still there and resolves to what it resolved to.
KeysKept(s, a, b) ==
    /\ Len(b.scratch) >= Len(a.scratch)
    /\ \A key \in a.table :
          /\ key \in b.table
          /\ Resolve(s, b.scratch, key) = Resolve(s, a.scratch, key)

\* The source holds one object at most.
IsFlat(s) == Cardinality({k \in 1..Len(s) : s[k] = B("{")}) <= 1

-----------------------------------------------------------------------------
(* Leaves, character by character *)

MaxChars == 3

NumberChars == {B("0"), B("1"), B("-"), B("e"), B(".")}

\* Every text of one to MaxChars number characters.
NumberTexts == UNION {[1..n -> NumberChars] : n \in 1..MaxChars}

\* Every string of at most MaxUnits bytes and escapes, well formed or not.
StringTexts == EscapedKeys

\* A number or a string as the root value, and as the one item of an array.
LeafSources ==
    LET leaves == NumberTexts \cup StringTexts
    IN  leaves \cup {Bytes(<<"[">>) \o x \o Bytes(<<"]">>) : x \in leaves}

InitLeaves == InitOn(LeafSources)

SpecLeaves == InitLeaves /\ [][Next]_vars

\* The index after the decimal digits of t that start at index k.
RECURSIVE Digits(_, _)
Digits(t, k) == IF k <= Len(t) /\ t[k] \in 48..57 THEN Digits(t, k + 1) ELSE k

\* t is a JSON number: -?(0|[1-9][0-9]*)(\.[0-9]+)?([eE][+-]?[0-9]+)?
\* Each of int, frac and exp is the index after that part, 0 when it is wrong.
IsJsonNumber(t) ==
    LET at(k, S) == k > 0 /\ k <= Len(t) /\ t[k] \in S
        some(k) == IF Digits(t, k) > k THEN Digits(t, k) ELSE 0
        first == IF at(1, {B("-")}) THEN 2 ELSE 1
        int == IF at(first, {B("0")}) THEN first + 1 ELSE some(first)
        frac == IF at(int, {B(".")}) THEN some(int + 1) ELSE int
        exp == IF at(frac, {B("e"), B("E")})
               THEN some(IF at(frac + 1, {B("+"), B("-")}) THEN frac + 2 ELSE frac + 1)
               ELSE frac
    IN  exp = Len(t) + 1

\* c, the bytes between the quotes of a string, holds no quote and no
\* backslash but in the escapes \" \\ \/ \b \f \n \r \t and \u with four hex
\* digits.
RECURSIVE IsJsonStringContent(_)
IsJsonStringContent(c) ==
    LET hex == (48..57) \cup (65..70) \cup (97..102) IN
    IF c = <<>> THEN TRUE
    ELSE IF c[1] = B("\"") THEN FALSE
    ELSE IF c[1] # B("\\") THEN IsJsonStringContent(Tail(c))
    ELSE IF Len(c) < 2 THEN FALSE
    ELSE IF c[2] \in {B("\""), B("\\"), B("/"), B("b"), B("f"), B("n"), B("r"), B("t")}
         THEN IsJsonStringContent(SubSeq(c, 3, Len(c)))
    ELSE /\ c[2] = B("u") /\ Len(c) >= 6
         /\ \A k \in 3..6 : c[k] \in hex
         /\ IsJsonStringContent(SubSeq(c, 7, Len(c)))

\* The leaf tokens of s are leaves of the JSON token grammar.
LeavesInGrammar(s) ==
    LET toks == TokensOf(s) IN
    \A n \in 1..Len(toks) :
        LET text == Slice(s, toks[n].span[1], toks[n].span[2]) IN
        /\ toks[n].token = Tok("Leaf", "Number") => IsJsonNumber(text)
        /\ toks[n].token = Tok("Leaf", "String") =>
              IsJsonStringContent(SubSeq(text, 2, Len(text) - 1))

-----------------------------------------------------------------------------
(* Trees: every JSON value of a given number of tokens *)

\* The number of tokens of an input.
MaxTokens == 13

\* The key of the m-th member of an object: "a" and "b" in turn.
MemberKey(m) == IF m % 2 = 1 THEN Quoted(Bytes(<<"a">>)) ELSE Quoted(Bytes(<<"b">>))

\* ValuesOf(n): the texts of the JSON values of exactly n tokens whose leaves
\* are the number 1.  ItemsOf(k) and MembersOf(k, m): the texts of k tokens
\* that are one or more values, or members from the m-th on, with commas.
RECURSIVE ValuesOf(_), ItemsOf(_), MembersOf(_, _)
ValuesOf(n) ==
    IF n < 1 THEN {}
    ELSE IF n = 1 THEN {Bytes(<<"1">>)}
    ELSE IF n = 2 THEN {Bytes(<<"[", "]">>), Bytes(<<"{", "}">>)}
    ELSE {Bytes(<<"[">>) \o x \o Bytes(<<"]">>) : x \in ItemsOf(n - 2)}
         \cup {Bytes(<<"{">>) \o x \o Bytes(<<"}">>) : x \in MembersOf(n - 2, 1)}

ItemsOf(k) ==
    IF k < 1 THEN {}
    ELSE ValuesOf(k)
         \cup UNION {{v \o Bytes(<<",">>) \o r : v \in ValuesOf(j), r \in ItemsOf(k - j - 1)} :
                        j \in 1..(k - 2)}

MembersOf(k, m) ==
    IF k < 3 THEN {}
    ELSE {MemberKey(m) \o Bytes(<<":">>) \o v : v \in ValuesOf(k - 2)}
         \cup UNION {{MemberKey(m) \o Bytes(<<":">>) \o v \o Bytes(<<",">>) \o r :
                         v \in ValuesOf(j), r \in MembersOf(k - j - 3, m + 1)} :
                        j \in 1..(k - 5)}

TreeSources == UNION {ValuesOf(n) : n \in 1..MaxTokens}

InitTrees == InitOn(TreeSources)

SpecTrees == InitTrees /\ [][Next]_vars

\* The children of a Value in the arena, as FmtValue::fmt reads them (fmt.rs,
\* lines 32-33 and 50-51): `arena.values[values.start..values.end]`.
ChildrenOf(arena, v) ==
    IF v.kind.tag = "Leaf" THEN <<>>
    ELSE Slice(arena.values, v.kind.values[1], v.kind.values[2])

\* The keys of an object in the arena (fmt.rs, line 31):
\* `arena.keys[keys.start..keys.end]`.
KeysOf(arena, v) ==
    IF v.kind.tag # "Object" THEN <<>>
    ELSE Slice(arena.keys, v.kind.keys[1], v.kind.keys[2])

\* The Values below v in the arena, down to depth levels.
RECURSIVE Below(_, _, _)
Below(arena, v, depth) ==
    IF depth = 0 THEN {}
    ELSE LET children == ChildrenOf(arena, v) IN
         {children[m] : m \in 1..Len(children)}
             \cup UNION {Below(arena, children[m], depth - 1) : m \in 1..Len(children)}

\* The containers of the tree of a run that ended Ok: its root and the Values
\* below it that are not leaves.
ContainersOf(run) ==
    {v \in {run.value} \cup Below(run.parser.arena, run.value, Len(src)) :
        v.kind.tag # "Leaf"}

\* Reference reading of a container of a well-formed token sequence of kinds
\* t: the indices at which the values of its direct children start, in source
\* order, reading from index k, the first index after the opening token or
\* after a comma. In an object a member's value starts two tokens after its
\* key.
RECURSIVE ChildStarts(_, _, _)
ChildStarts(t, k, object) ==
    IF t[k] \in {"CloseArray", "CloseObject"} THEN <<>>
    ELSE LET at == IF object THEN k + 2 ELSE k
             e == ValueEnd(t, at)
         IN  <<at>> \o (IF t[e] = "Comma" THEN ChildStarts(t, e + 1, object) ELSE <<>>)

\* The Value v of the arena is the JSON value that starts at token k of s,
\* child by child: a leaf is the token's leaf with the token's span; a
\* container has the token's kind, as many children as the source gives it
\* directly, in its order, each the value the source has there; an object has
\* as many keys, and key m resolves to the decoded key of member m.
RECURSIVE SameTree(_, _, _, _, _)
SameTree(s, toks, k, arena, v) ==
    LET t == [n \in 1..Len(toks) |-> KindOf(toks[n].token)] IN
    IF t[k] \in {"Leaf", "String"}
    THEN v = Value(toks[k].span, LeafKind(toks[k].token.leaf))
    ELSE LET object == t[k] = "OpenObject"
             starts == ChildStarts(t, k + 1, object)
             children == ChildrenOf(arena, v)
             keys == KeysOf(arena, v)
         IN  /\ v.kind.tag = IF object THEN "Object" ELSE "Array"
             /\ v.kind.values[2] - v.kind.values[1] = Len(starts)
             /\ Len(children) = Len(starts)
             /\ \A m \in 1..Len(starts) : SameTree(s, toks, starts[m], arena, children[m])
             /\ object =>
                   /\ v.kind.keys[2] - v.kind.keys[1] = Len(starts)
                   /\ Len(keys) = Len(starts)
                   /\ \A m \in 1..Len(starts) :
                         Resolve(s, arena.scratch, keys[m])
                             = DecodedKey(s, toks[starts[m] - 2].span).str

\* The sequence a is the start of the sequence b.
IsPrefix(a, b) == Len(a) <= Len(b) /\ SubSeq(b, 1, Len(a)) = a

\* The child ranges of a ValueKind lie within the vectors of the arena.
InBounds(arena, kind) ==
    kind.tag # "Leaf" =>
        /\ 0 <= kind.values[1] /\ kind.values[1] <= kind.values[2]
        /\ kind.values[2] <= Len(arena.values)
        /\ 0 <= kind.keys[1] /\ kind.keys[1] <= kind.keys[2]
        /\ kind.keys[2] <= Len(arena.keys)

\* Every Value a parser holds (in arena.values, in value_stack, in the given
\* context) has its child ranges within the vectors of its arena.
HeldInBounds(p, context) ==
    /\ \A n \in 1..Len(p.arena.values) : InBounds(p.arena, p.arena.values[n].kind)
    /\ \A n \in 1..Len(p.value_stack) : InBounds(p.arena, p.value_stack[n].kind)
    /\ context.tag = "Value" => InBounds(p.arena, context.value)

\* Reference count of the nodes of the JSON value s: every token that starts
\* a value, that is every opening token and every leaf that is not a key (a
\* key is followed by its colon).
NodesOf(s) ==
    LET t == KindsOf(s) IN
    Cardinality({n \in 1..Len(t) : t[n] \in {"Leaf", "String", "OpenArray", "OpenObject"}})
        - Cardinality({n \in 1..Len(t) : t[n] = "Colon"})

\* Reference count of the object members of the JSON value s: one per colon.
MembersIn(s) == LET t == KindsOf(s) IN Cardinality({n \in 1..Len(t) : t[n] = "Colon"})

\* The containers of a set whose range, picked by the given field, holds
\* the index at.
Holding(containers, field, at) ==
    {C \in containers : C.kind[field][1] <= at /\ at < C.kind[field][2]}

\* Reference reading of a container that a sequence of token kinds t leaves
\* open: the indices at which its children that are complete values start, in
\* source order, reading from index k as ChildStarts does.  With pushed, only
\* the children that their comma follows.
RECURSIVE CompleteStarts(_, _, _, _)
CompleteStarts(t, k, object, pushed) ==
    LET at == IF object THEN k + 2 ELSE k
        e == ValueEnd(t, at)
        comma == e <= Len(t) /\ t[e] = "Comma"
    IN  IF e <= 0 \/ (pushed /\ ~comma) THEN <<>>
        ELSE <<at>> \o (IF comma THEN CompleteStarts(t, e + 1, object, pushed) ELSE <<>>)

\* The stacks of a run whose last step succeeded: the watermarks of the open stack
\* do not decrease from bottom to top and none exceeds the length of its
\* working stack; the entries of value_stack above the watermark of the top
\* container are the complete children of the container the source leaves
\* open there (with pushed: those their comma follows), each the value the
\* source has; a run that ended Ok holds nothing in its three stacks.
StacksHold(run, pushed) ==
    LET p == run.parser
        stack == p.stack
        toks == TokensBefore(src, p.pos)
        t == [n \in 1..Len(toks) |-> KindOf(toks[n].token)]
        open == OpenContainers(toks)
    IN  /\ Len(stack) = Len(open)
        /\ \A n \in 1..Len(stack) :
              /\ stack[n].vindex <= Len(p.value_stack)
              /\ stack[n].kind = "Object" => stack[n].kindex <= Len(p.key_stack)
              /\ \A m \in 1..(n - 1) :
                    /\ stack[m].vindex <= stack[n].vindex
                    /\ (stack[m].kind = "Object" /\ stack[n].kind = "Object") =>
                          stack[m].kindex <= stack[n].kindex
        /\ stack # <<>> =>
              LET top == stack[Len(stack)]
                  above == Slice(p.value_stack, top.vindex, Len(p.value_stack))
                  opening == CHOOSE n \in 1..Len(toks) : toks[n].span[1] = open[Len(open)].span
                  starts == CompleteStarts(t, opening + 1, top.kind = "Object", pushed)
              IN  /\ Len(above) = Len(starts)
                  /\ \A m \in 1..Len(starts) : SameTree(src, toks, starts[m], p.arena, above[m])
        /\ run.status = "ok" =>
              stack = <<>> /\ p.value_stack = <<>> /\ p.key_stack = <<>>

\* Two ranges have no index in common.
Apart(r, q) == r[2] <= q[1] \/ q[2] <= r[1] \/ r[1] >= r[2] \/ q[1] >= q[2]

-----------------------------------------------------------------------------
(* Inputs the tokenizer fails on, at every place of a document *)

\* The lexemes of {"a":[1,{"b":1}],"a":1}
DocumentPieces ==
    <<Bytes(<<"{">>), Quoted(Bytes(<<"a">>)), Bytes(<<":">>), Bytes(<<"[">>), Bytes(<<"1">>),
      Bytes(<<",">>), Bytes(<<"{">>), Quoted(Bytes(<<"b">>)), Bytes(<<":">>), Bytes(<<"1">>),
      Bytes(<<"}">>), Bytes(<<"]">>), Bytes(<<",">>), Quoted(Bytes(<<"a">>)), Bytes(<<":">>),
      Bytes(<<"1">>), Bytes(<<"}">>)>>

\* The number of lexemes of the document before the text that is no token.
MaxPrefix == 12

\* Texts no token starts with: a byte outside the token set, a quote that is
\* never closed, a cut literal, a sign that is no minus.
BadLexemes ==
    {Bytes(<<"/">>), Bytes(<<"\"", "a">>), Bytes(<<"t", "r", "u">>), Bytes(<<"+", "1">>)}

\* The first lexemes of the document, then, after white space or not, a text
\* that is no token, then nothing or a token.
LexicalSources ==
    {Concat(SubSeq(DocumentPieces, 1, n)) \o w \o bad \o rest :
        n \in 0..Min({MaxPrefix, Len(DocumentPieces)}),
        w \in {<<>>, Bytes(<<" ">>)},
        bad \in BadLexemes,
        rest \in {<<>>, Bytes(<<" ", "1">>)}}

InitLexical == InitOn(LexicalSources)

SpecLexical == InitLexical /\ [][Next]_vars

\* A step from parser p in the given context on a text the tokenizer fails on
\* returned the run after: Err with no token, the span the lexer reports
\* (from the first byte after the white space), the context and the stack as
\* they were, the arena and the working stacks untouched.
LexicalFailure(s, p, context, after) ==
    LET lex == LexNext(s, p.pos) IN
    lex.tag = "error" =>
        /\ after.status = "err"
        /\ after.error.token = NoToken
        /\ after.error.span = lex.span
        /\ lex.span[1] = SkipWs(s, p.pos) /\ lex.span[2] > lex.span[1]
        /\ after.error.context = context
        /\ after.error.stack = p.stack
        /\ after.parser.arena = p.arena
        /\ after.parser.value_stack = p.value_stack
        /\ after.parser.key_stack = p.key_stack

-----------------------------------------------------------------------------
(* Termination: both drivers under a scheduler that lets them run *)

\* The document whole, every prefix of its lexemes (the empty input among
\* them), the document with a bracket too many, and its first lexemes
\* followed by a text that is no token.
TerminationSources ==
    {Concat(SubSeq(DocumentPieces, 1, n)) : n \in 0..Len(DocumentPieces)}
        \cup {Concat(DocumentPieces) \o Bytes(<<"]">>)}
        \cup {Concat(SubSeq(DocumentPieces, 1, n)) \o bad :
                 n \in 0..Min({MaxPrefix, Len(DocumentPieces)}), bad \in BadLexemes}

InitTermination == InitOn(TerminationSources)

\* parse is a loop that blocks its thread until it returns (lines 550-555), so
\* its next step is always taken; a poll runs step_while to its end (lines
\* 524-531); and the executor polls again a future that has woken its waker.
SpecTermination ==
    /\ InitTermination /\ [][Next]_vars
    /\ WF_vars(SyncStep) /\ WF_vars(Poll) /\ WF_vars(AsyncStep) /\ WF_vars(Yield)

\* The calls of step a run has made: one for each token it has read, and one
\* more when it has met the end of the input or a text that is no token.
StepsOf(run) ==
    Len(TokensBefore(src, run.parser.pos))
        + (IF run.status = "ok" \/ (run.status = "err" /\ run.error.token = NoToken)
           THEN 1 ELSE 0)

\* The step from parser p that gave the run after has read exactly the one
\* token that follows, or has found none and returned for good.
ReadsOne(s, p, after) ==
    LET lex == LexNext(s, p.pos) IN
    IF lex.tag = "token"
    THEN /\ after.parser.pos = lex.span[2]
         /\ TokensBefore(s, after.parser.pos) = Append(TokensBefore(s, p.pos), lex)
    ELSE after.status # "running"

\* The quotient of a by b, rounded up.
CeilDiv(a, b) == (a + b - 1) \div b

-----------------------------------------------------------------------------
(* Claims *)

\* C1: when parse and parse_async have both run to completion over the same
\* source, each on its own fresh arena, they end alike: both Ok with the same
\* root Value and the same arena (keys, values, scratch, interned keys), or
\* both Err with the same token, span, stack and context.
C1_SameOutcome ==
    Done =>
        /\ sync.status = async.status
        /\ sync.value = async.value
        /\ sync.error = async.error
        /\ sync.parser.arena = async.parser.arena

\* Both runs ended Ok on an object with a member, parse_async over three polls.
C1_Witness ==
    /\ Done
    /\ async.status = "ok"
    /\ polls >= 3
    /\ async.value.kind.tag = "Object"
    /\ async.parser.arena.keys # <<>>

\* C2 as claimed: parse returns Ok exactly when the tokens of the source are
\* one well-formed JSON value, and Err for every other token sequence.
C2_OkIffWellFormed ==
    sync.status # "running" =>
        (sync.status = "ok" <=> (Lexes(src) /\ WellFormed(KindsOf(src))))

\* C2 as amended: parse returns Ok exactly when the tokens of the source are
\* one well-formed JSON value and every object key in it decodes; every other
\* source, the empty one included, returns Err.
C2_OkIffWellFormedAndKeysDecode ==
    sync.status # "running" =>
        (sync.status = "ok" <=>
            (Lexes(src) /\ WellFormed(KindsOf(src)) /\ KeysDecode(src)))

\* parse returned Ok for an object with a member whose value is a container.
C2_Witness ==
    /\ sync.status = "ok"
    /\ sync.value.kind.tag = "Object"
    /\ \E n \in 1..Len(sync.parser.arena.values) :
          sync.parser.arena.values[n].kind.tag # "Leaf"

\* C3: the input of N `[` followed by N `]` is parsed successfully by parse and
\* by parse_async, and neither the open-container stack nor the value stack
\* ever holds more than N entries.
C3_DeepNesting ==
    LET n == Len(src) \div 2 IN
    \A run \in {sync, async} :
        /\ Len(run.parser.stack) <= n
        /\ Len(run.parser.value_stack) <= n
        /\ run.status # "err"

\* Both runs returned Ok on the deepest input, after the stack held MaxDepth entries.
C3_Witness ==
    /\ Done
    /\ Len(src) = 2 * MaxDepth
    /\ sync.status = "ok" /\ async.status = "ok"
    /\ sync.value.kind.tag = "Array"

\* C4: in one arena, any two object keys whose decoded strings are byte-equal
\* have been given bitwise-equal StringKeys, whether they carry escapes or
\* not, sit in one object or in nested ones, and in whatever order they came.
C4_EqualKeysShareHandle ==
    \A run \in {sync, async} :
        LET h == HandlesOf(run)
            spans == KeySpans(src)
            str == [n \in 1..Len(h) |-> DecodedKey(src, spans[n]).str]
        IN  /\ \A a, b \in 1..Len(h) :
                  ResolveIn(run, h[a]) = ResolveIn(run, h[b]) => h[a] = h[b]
            /\ IsFlat(src) => \A a, b \in 1..Len(h) : str[a] = str[b] => h[a] = h[b]

\* A parse ended Ok in which an escaped key, then the plain key of the same
\* decoded string, then a third key were given one handle, held in the scratch.
C4_Witness ==
    /\ Done /\ sync.status = "ok"
    /\ IsFlat(src)
    /\ LET h == sync.parser.arena.keys
           spans == KeySpans(src)
       IN  /\ Len(h) = 3
           /\ h[1] = h[2] /\ h[2] = h[3]
           /\ h[1][2] < h[1][1]
           /\ spans[2][2] - spans[2][1] = 3

\* C5: resolving the StringKey given for an object key yields the decoded
\* content of the key: the source bytes between the quotes when the key has no
\* backslash, else the runs around the escapes with each escape replaced by
\* its character.
C5_ResolveIsDecoded ==
    \A run \in {sync, async} :
        LET h == HandlesOf(run)
            spans == KeySpans(src)
        IN  \A n \in 1..Len(h) :
                LET d == DecodedKey(src, spans[n]) IN
                /\ d.ok
                /\ ResolveIn(run, h[n]) = d.str
                /\ Memchr(B("\\"), src, spans[n][1], spans[n][2]) < 0 =>
                      /\ h[n] = <<spans[n][1] + 1, spans[n][2] - 1>>
                      /\ ResolveIn(run, h[n]) = Slice(src, spans[n][1] + 1, spans[n][2] - 1)

\* A parse ended Ok whose second key holds two escapes, one of them the
\* \u escape of a two-byte character, and resolves from the scratch.
C5_Witness ==
    /\ Done /\ sync.status = "ok"
    /\ LET h == sync.parser.arena.keys IN
       /\ Len(h) = 2
       /\ h[2][2] < h[2][1]
       /\ ResolveIn(sync, h[2]) = <<195, 169, 10>>
       /\ ResolveIn(sync, h[1]) = <<9>>

\* C6 as claimed: the span of the root Value of an accepted input runs from
\* the first byte that is not white space to the byte after the last one.
C6_RootSpanCoversInput ==
    \A run \in {sync, async} :
        run.status = "ok" => run.value.span = <<Min(Inked(src)), Max(Inked(src)) + 1>>

\* C7 as claimed: an Err carries the span of the offending token (of the end
\* of input when there is none), the context in force when it was read, and
\* one stack entry for every container opened and not closed before it.
C7_ErrorCarriesOpenStack ==
    \A run \in {sync, async} :
        run.status = "err" =>
            LET pre == TokensBefore(src, run.error.span[1]) IN
            /\ run.error.span = LexAfter(src, run.error.span[1]).span
            /\ run.error.context.tag = ExpectedAfter(pre)
            /\ Shape(run.error.stack) = OpenContainers(pre)

\* The parts of C7 that hold: the span and the context of every Err.
C7_ErrorSpanAndContext ==
    \A run \in {sync, async} :
        run.status = "err" =>
            LET pre == TokensBefore(src, run.error.span[1]) IN
            /\ run.error.span = LexAfter(src, run.error.span[1]).span
            /\ run.error.context.tag = ExpectedAfter(pre)

\* C8: when the input ends where the grammar expects more (the empty input
\* included), parse and parse_async return Err with token None, span
\* [len, len), the context in force at the end and every open container in
\* opening order.
C8_UnexpectedEof ==
    (Lexes(src) /\ Unfinished(KindsOf(src)) /\ KeysDecode(src)) =>
        \A run \in {sync, async} :
            /\ run.status # "ok"
            /\ run.status = "err" =>
                  /\ run.error.token = NoToken
                  /\ run.error.span = <<Len(src), Len(src)>>
                  /\ run.error.context.tag = ExpectedAfter(TokensOf(src))
                  /\ run.error.context.tag = "Key" =>
                        run.error.context.span = TokensOf(src)[Len(TokensOf(src))].span
                  /\ Shape(run.error.stack) = OpenContainers(TokensOf(src))

\* The input ended inside an object inside an array, after a key.
C8_Witness ==
    /\ Done /\ sync.status = "err"
    /\ sync.error.token = NoToken
    /\ sync.error.span = <<Len(src), Len(src)>>
    /\ sync.error.context.tag = "Key"
    /\ Len(sync.error.stack) = 2
    /\ sync.error.stack[1].kind = "Array" /\ sync.error.stack[2].kind = "Object"

\* C9: the first object key that does not decode (an unknown escape, a \u
\* without four hex digits, a \u naming a surrogate) makes parse and
\* parse_async return Err against that key's token with context WaitingKey;
\* no StringKey is made for it: the table and the key stack hold what the
\* keys before it left there.
C9_BadKeyEscape ==
    LET spans == KeySpans(src)
        bad == {n \in 1..Len(spans) : ~DecodedKey(src, spans[n]).ok}
    IN  bad # {} =>
            LET n == Min(bad)
                earlier == {DecodedKey(src, spans[m]).str : m \in 1..(n - 1)}
            IN  \A run \in {sync, async} :
                    /\ run.status # "ok"
                    /\ Len(HandlesOf(run)) <= n - 1
                    /\ {ResolveIn(run, key) : key \in run.parser.arena.table} \subseteq earlier
                    /\ run.status = "err" =>
                          /\ run.error.token = Tok("Leaf", "String")
                          /\ run.error.span = spans[n]
                          /\ run.error.context = WaitingKey
                          /\ Len(run.parser.key_stack) = n - 1
                          /\ Cardinality(run.parser.arena.table) = Cardinality(earlier)

\* A parse ended Err at a second key that names a surrogate after an escape
\* that decodes; the first key is the one key interned.
C9_Witness ==
    /\ Done /\ sync.status = "err"
    /\ sync.error.context = WaitingKey
    /\ sync.error.span[1] > 1
    /\ ~DecodedKey(src, sync.error.span).ok
    /\ Slice(src, sync.error.span[2] - 7, sync.error.span[2] - 1) = Bytes(<<"\\", "u", "D", "8", "0", "0">>)
    /\ sync.error.span[2] - sync.error.span[1] > 8
    /\ Len(sync.parser.key_stack) = 1
    /\ Cardinality(sync.parser.arena.table) = 1

\* C10 as claimed: a text that is no token of the JSON grammar (01, -, 1e, a
\* string holding an unknown escape) is never accepted as a leaf: parse
\* returns Ok only when every leaf is a number or a string of the grammar.
C10_LeavesOutsideGrammarRejected ==
    \A run \in {sync, async} : run.status = "ok" => LeavesInGrammar(src)

\* C11: a poll of parse_async runs at most YIELD_AFTER steps, each reading
\* the one token that follows the last one read; a poll that has run
\* YIELD_AFTER steps without finishing or failing wakes the waker and returns
\* Pending, leaving the parser as it is and keeping the context of its last
\* step; the next poll starts from that parser and that context.
C11_PollBudget ==
    [][/\ i' <= YIELD_AFTER
       /\ (async'.parser # async.parser \/ async'.status # async.status) =>
             /\ polling /\ i < YIELD_AFTER /\ i' = i + 1
             /\ async'.parser.pos = LexNext(src, async.parser.pos).span[2]
             /\ Returned(async, step(src, async.parser, local)).parser = async'.parser
       /\ (polling /\ ~polling' /\ async'.status = "running") =>
             /\ i = YIELD_AFTER
             /\ woken'
             /\ async'.parser = async.parser
             /\ async'.context = local
       /\ (~polling /\ polling') =>
             /\ i' = 0
             /\ async' = async
             /\ local' = async.context]_vars

\* The third poll of a parse ended Ok: two polls used their whole budget and
\* returned Pending.
C11_Witness ==
    /\ polls = 3 /\ ~polling /\ async.status = "ok"
    /\ async.parser.pos = Len(src)
    /\ async.value.kind.tag = "Object"

\* C12: an object that repeats a key is accepted; its key range holds one
\* StringKey per member in source order, a repeated key being the same handle
\* each time; key m is paired with the value of member m; and of the entries
\* of one key the last one in the source is the one an ordered map keeps.
C12_RepeatedKeys ==
    (IsFlat(src) /\ Done) =>
        \A run \in {sync, async} :
            LET spans == KeySpans(src)
                toks == TokensOf(src)
                n == Len(spans)
                str == [m \in 1..n |-> DecodedKey(src, spans[m]).str]
                object == run.value.kind
                keys == Slice(run.parser.arena.keys, object.keys[1], object.keys[2])
                entries == Entries(src, run.parser.arena, object)
                map == Inserted(entries)
            IN  /\ run.status = "ok"
                /\ object.tag = "Object"
                /\ Len(keys) = n
                /\ Len(entries) = n
                /\ object.values[2] - object.values[1] = n
                /\ \A m \in 1..n :
                      /\ entries[m].key = str[m]
                      /\ entries[m].value = Value(toks[4 * m].span, LeafKind("Number"))
                /\ \A a, b \in 1..n : str[a] = str[b] => keys[a] = keys[b]
                /\ \A a \in 1..n :
                      (\A b \in (a + 1)..n : str[b] # str[a]) =>
                          map[str[a]] = Value(toks[4 * a].span, LeafKind("Number"))

\* {"a":1,"a":1} ended Ok: two keys of one handle, values at [5,6) and [11,12).
C12_Witness ==
    /\ Done /\ sync.status = "ok"
    /\ src = FlatObject(<<Quoted(Bytes(<<"a">>)), Quoted(Bytes(<<"a">>))>>)
    /\ Slice(sync.parser.arena.keys, sync.value.kind.keys[1], sync.value.kind.keys[2])
          = <<(<<2, 3>>), (<<2, 3>>)>>
    /\ Slice(sync.parser.arena.values, sync.value.kind.values[1], sync.value.kind.values[2])
          = <<Value(<<5, 6>>, LeafKind("Number")), Value(<<11, 12>>, LeafKind("Number"))>>

\* C13: at any depth, a close token that follows the opening token of its
\* container makes Array{values: 0..0} or Object{keys: 0..0, values: 0..0}
\* with span [opening token start, closing token end) and appends nothing to
\* the arena; a close token read in context WaitingValue or WaitingKey is
\* accepted in that case only, so a close right after a comma is an error.
C13_EmptyContainers ==
    [][/\ (sync.status = "running" /\ sync' # sync) =>
             ClosesRight(src, sync.parser, sync.context, sync'.parser, sync'.context,
                         sync'.status = "err")
       /\ (polling /\ i' = i + 1) =>
             ClosesRight(src, async.parser, local, async'.parser, local',
                         async'.status = "err")]_vars

\* [1,[]] ended Ok: the inner array, closed at depth two with a value on
\* value_stack, is Array{values: 0..0} of span [3,5).
C13_Witness ==
    /\ Done /\ sync.status = "ok" /\ async.status = "ok"
    /\ src = Bytes(<<"[", "1", ",", "[", "]", "]">>)
    /\ sync.parser.arena.values
          = <<Value(<<1, 2>>, LeafKind("Number")), Value(<<3, 5>>, ArrayKind(<<0, 0>>))>>

\* C14: in the tree of a successful parse, the child range of a container
\* that is the child of another ends at or before the start of its parent's
\* child range (value ranges, and key ranges when both are objects), and the
\* child ranges of two containers that are children of one container have no
\* index in common.
C14_PostOrderLayout ==
    \A run \in {sync, async} :
        run.status = "ok" =>
            \A P \in ContainersOf(run) :
                LET children == ChildrenOf(run.parser.arena, P) IN
                /\ \A m \in 1..Len(children) :
                      LET N == children[m] IN
                      N.kind.tag # "Leaf" =>
                          /\ N.kind.values[2] <= P.kind.values[1]
                          /\ (N.kind.tag = "Object" /\ P.kind.tag = "Object") =>
                                N.kind.keys[2] <= P.kind.keys[1]
                /\ \A a, b \in 1..Len(children) :
                      (a # b /\ children[a].kind.tag # "Leaf" /\ children[b].kind.tag # "Leaf") =>
                          /\ Apart(children[a].kind.values, children[b].kind.values)
                          /\ Apart(children[a].kind.keys, children[b].kind.keys)

\* [{"a":1},{"a":1}] ended Ok: the two objects hold values 0..1 and 1..2 and
\* keys 0..1 and 1..2, the root holds values 2..4.
C14_Witness ==
    /\ Done /\ sync.status = "ok"
    /\ sync.value.kind = ArrayKind(<<2, 4>>)
    /\ LET children == ChildrenOf(sync.parser.arena, sync.value) IN
       /\ children[1].kind = ObjectKind(<<0, 1>>, <<0, 1>>)
       /\ children[2].kind = ObjectKind(<<1, 2>>, <<1, 2>>)

\* C15 as claimed: the child range of a container encloses the child range
\* of every container that descends from it, for values and for keys.
C15_ParentEncloses ==
    \A run \in {sync, async} :
        run.status = "ok" =>
            \A A \in ContainersOf(run) :
                \A D \in Below(run.parser.arena, A, Len(src)) :
                    D.kind.tag # "Leaf" =>
                        /\ A.kind.values[1] <= D.kind.values[1]
                        /\ D.kind.values[2] <= A.kind.values[2]
                        /\ (A.kind.tag = "Object" /\ D.kind.tag = "Object") =>
                              /\ A.kind.keys[1] <= D.kind.keys[1]
                              /\ D.kind.keys[2] <= A.kind.keys[2]

\* C15, amended: the child range of a container lies after the child range
\* of every container that descends from it: the descendant's range ends at
\* or before the start of the ancestor's (so before its end too), and a
\* descendant's range that is not empty starts before the ancestor's; for
\* values, and for keys when both are objects.
C15_DescendantsPrecede ==
    \A run \in {sync, async} :
        run.status = "ok" =>
            \A A \in ContainersOf(run) :
                \A D \in Below(run.parser.arena, A, Len(src)) :
                    D.kind.tag # "Leaf" =>
                        /\ D.kind.values[2] <= A.kind.values[1]
                        /\ D.kind.values[2] <= A.kind.values[2]
                        /\ D.kind.values[1] < D.kind.values[2] =>
                              D.kind.values[1] < A.kind.values[1]
                        /\ (A.kind.tag = "Object" /\ D.kind.tag = "Object") =>
                              /\ D.kind.keys[2] <= A.kind.keys[1]
                              /\ D.kind.keys[2] <= A.kind.keys[2]
                              /\ D.kind.keys[1] < D.kind.keys[2] =>
                                    D.kind.keys[1] < A.kind.keys[1]

\* {"a":{"a":{"a":1}}} ended Ok: the ranges of the three objects, innermost
\* first, are 0..1, 1..2 and 2..3, for values and for keys.
C15_Witness ==
    /\ Done /\ sync.status = "ok"
    /\ sync.value.kind = ObjectKind(<<2, 3>>, <<2, 3>>)
    /\ LET child == ChildrenOf(sync.parser.arena, sync.value)[1] IN
       /\ child.kind = ObjectKind(<<1, 2>>, <<1, 2>>)
       /\ ChildrenOf(sync.parser.arena, child)[1].kind = ObjectKind(<<0, 1>>, <<0, 1>>)

\* C16: in the tree of a successful parse, arena.values[values] of every
\* container is its direct children in source order and as many as the source
\* gives it, and arena.keys[keys] of every object is its member keys in
\* source order, as many as its values.
C16_DirectChildrenInOrder ==
    \A run \in {sync, async} :
        run.status = "ok" =>
            SameTree(src, TokensOf(src), 1, run.parser.arena, run.value)

\* {"a":1,"b":{"a":1}} ended Ok: the root has the keys "a" and "b" and two
\* children, the leaf and an object of one member with the key "a".
C16_Witness ==
    /\ Done /\ async.status = "ok"
    /\ LET arena == async.parser.arena
           keys == KeysOf(arena, async.value)
           children == ChildrenOf(arena, async.value)
       IN  /\ Len(keys) = 2 /\ Len(children) = 2
           /\ ResolveIn(async, keys[1]) = Bytes(<<"a">>)
           /\ ResolveIn(async, keys[2]) = Bytes(<<"b">>)
           /\ children[1].kind = LeafKind("Number")
           /\ children[2].kind.tag = "Object"
           /\ Len(KeysOf(arena, children[2])) = 1
           /\ ChildrenOf(arena, children[2]) = <<Value(<<16, 17>>, LeafKind("Number"))>>

\* C17: whatever keys a parser has interned, its table holds exactly one
\* entry for each distinct decoded string among them: no two entries resolve
\* to equal strings, every key read resolves equal to some entry, and every
\* entry resolves to the decoded string of a key read.
C17_OneEntryPerString ==
    \A run \in {sync, async} :
        LET passed == KeysPassed(src, run.parser)
            seen == {DecodedKey(src, passed[n]).str : n \in 1..Len(passed)}
            table == run.parser.arena.table
        IN  /\ \A a, b \in table : ResolveIn(run, a) = ResolveIn(run, b) => a = b
            /\ TableStrings(src, run.parser.arena) = seen
            /\ Cardinality(table) = Cardinality(seen)

\* {"\n":{"\u000A":{"a":1}}} ended Ok: three keys read, two entries in the
\* table, one in the scratch for the line feed and one in the source for `a`.
C17_Witness ==
    /\ Done /\ sync.status = "ok"
    /\ ~IsFlat(src)
    /\ Len(KeysPassed(src, sync.parser)) = 3
    /\ sync.parser.arena.table = {<<1, 0>>, <<18, 19>>}
    /\ sync.parser.arena.scratch = <<10>>

\* C18 as claimed: the StringKey given for a key addresses the source
\* (end >= start) when the key holds no escape and the scratch (end < start)
\* when it holds one.
C18_EscapeDecidesProvenance ==
    IsFlat(src) =>
        \A run \in {sync, async} :
            LET h == HandlesOf(run)
                spans == KeySpans(src)
            IN  \A n \in 1..Len(h) :
                    IF HasEscape(src, spans[n]) THEN h[n][2] < h[n][1]
                    ELSE h[n][2] >= h[n][1]

\* C18, amended: the StringKey given for a key whose decoded string no
\* earlier key had addresses the source when the key holds no escape and the
\* scratch when it holds one; a key whose decoded string an earlier key had
\* is given the handle of the first such key, whatever the two hold.
C18_FirstSpellingDecidesProvenance ==
    IsFlat(src) =>
        \A run \in {sync, async} :
            LET h == HandlesOf(run)
                spans == KeySpans(src)
                str == [n \in 1..Len(h) |-> DecodedKey(src, spans[n]).str]
            IN  \A n \in 1..Len(h) :
                    LET earlier == {m \in 1..(n - 1) : str[m] = str[n]} IN
                    IF earlier # {} THEN h[n] = h[Min(earlier)]
                    ELSE IF HasEscape(src, spans[n])
                    THEN h[n][2] < h[n][1] /\ h[n][1] - h[n][2] = Len(str[n])
                    ELSE h[n] = <<spans[n][1] + 1, spans[n][2] - 1>>

\* {"a":1,"\u0061":1} ended Ok: the escaped key was given the handle of the
\* plain one, in the source, and nothing is left in the scratch.
C18_Witness ==
    /\ Done /\ sync.status = "ok"
    /\ src = FlatObject(<<Quoted(Bytes(<<"a">>)), Quoted(Bytes(<<"\\", "u", "0", "0", "6", "1">>))>>)
    /\ sync.parser.arena.keys = <<(<<2, 3>>), (<<2, 3>>)>>
    /\ sync.parser.arena.scratch = <<>>

\* C19: a step that interns a key with an escape whose decoded string is in
\* the table leaves the scratch as long as it was; and the scratch of a parse
\* that ended Ok is no longer than the decoded strings of the distinct keys
\* with an escape, taken together.
C19_DuplicatesLeaveScratch ==
    [][/\ (sync.status = "running" /\ sync' # sync) =>
             HitKeepsScratch(src, sync.parser, sync.context, sync'.parser)
       /\ (polling /\ i' = i + 1) =>
             HitKeepsScratch(src, async.parser, local, async'.parser)
       /\ \A run \in {sync', async'} :
             run.status = "ok" =>
                 LET spans == KeySpans(src)
                     escaped == {DecodedKey(src, spans[n]).str :
                                    n \in {m \in 1..Len(spans) : HasEscape(src, spans[m])}}
                 IN  Len(run.parser.arena.scratch) <= SumLen(escaped)]_vars

\* {"\n":1,"\u000A":1,"\u0061":1} ended Ok: the second key hit the entry of
\* the first; the scratch holds the line feed and the `a`, two bytes for
\* three keys with an escape.
C19_Witness ==
    /\ Done /\ sync.status = "ok"
    /\ IsFlat(src)
    /\ Len(sync.parser.arena.keys) = 3
    /\ sync.parser.arena.keys[1] = <<1, 0>>
    /\ sync.parser.arena.keys[2] = <<1, 0>>
    /\ sync.parser.arena.keys[3] = <<2, 1>>
    /\ sync.parser.arena.scratch = <<10, 97>>
    /\ \A n \in 1..3 : HasEscape(src, KeySpans(src)[n])

\* C20: no step of a parse, whether its intern_string call hits, misses or
\* fails, shortens the scratch, removes a key from the table or changes the
\* string a key of the table resolves to.
C20_PublishedKeysStable ==
    [][/\ KeysKept(src, sync.parser.arena, sync'.parser.arena)
       /\ KeysKept(src, async.parser.arena, async'.parser.arena)]_vars

\* {"\t":1,"a\q":1} ended Err at the second key: the failed call left the
\* `a` in the scratch after the tab of the first key, whose entry is the one
\* entry of the table.
C20_Witness ==
    /\ Done /\ sync.status = "err"
    /\ sync.error.context = WaitingKey
    /\ sync.parser.arena.table = {<<1, 0>>}
    /\ sync.parser.arena.scratch = <<9, 97>>
    /\ ResolveIn(sync, <<1, 0>>) = <<9>>

\* C21: no step of parse or parse_async changes what arena.keys and
\* arena.values already held, it only appends; and after every step, so
\* wherever parse_async has returned Pending, every container Value in the
\* context, in value_stack and in arena.values has its child ranges within
\* arena.values and arena.keys as they are then.
C21_ArenaConsistentAtEveryStep ==
    [][/\ IsPrefix(sync.parser.arena.values, sync'.parser.arena.values)
       /\ IsPrefix(sync.parser.arena.keys, sync'.parser.arena.keys)
       /\ IsPrefix(async.parser.arena.values, async'.parser.arena.values)
       /\ IsPrefix(async.parser.arena.keys, async'.parser.arena.keys)
       /\ HeldInBounds(sync'.parser, sync'.context)
       /\ HeldInBounds(async'.parser, local')
       /\ HeldInBounds(async'.parser, async'.context)
       /\ (async'.status = "ok" => InBounds(async'.parser.arena, async'.value.kind))
       /\ (sync'.status = "ok" => InBounds(sync'.parser.arena, sync'.value.kind))]_vars

\* parse_async has returned Pending from its second poll of [[1],[1]]: the
\* first inner array, values 0..1, is the context it keeps, and arena.values
\* holds its one child.
C21_Witness ==
    /\ ~polling /\ woken /\ polls = 2 /\ async.status = "running"
    /\ src = Bytes(<<"[", "[", "1", "]", ",", "[", "1", "]", "]">>)
    /\ async.context.tag = "Value"
    /\ async.context.value = ArrayKind(<<0, 1>>)
    /\ Len(async.parser.arena.values) = 1
    /\ Len(async.parser.stack) = 1

\* C22: once parse and parse_async have returned, the arena of a parse that
\* ended Ok holds in arena.values as many entries as the tree has nodes
\* besides its root and in arena.keys as many as the source has object
\* members, and there is no other entry: every index of
\* arena.values lies in the child range of exactly one container of the tree
\* and every index of arena.keys in the key range of exactly one.
C22_OneEntryPerNode ==
    \A run \in {sync, async} :
        (Done /\ run.status = "ok") =>
            LET arena == run.parser.arena
                containers == ContainersOf(run)
            IN  /\ Len(arena.values) = NodesOf(src) - 1
                /\ Len(arena.keys) = MembersIn(src)
                /\ \A at \in 0..(Len(arena.values) - 1) :
                      Cardinality(Holding(containers, "values", at)) = 1
                /\ \A at \in 0..(Len(arena.keys) - 1) :
                      Cardinality(Holding(containers, "keys", at)) = 1

\* {"a":[1],"b":{}} ended Ok: three entries in arena.values (the leaf, the
\* array, the empty object) and two in arena.keys.
C22_Witness ==
    /\ Done /\ sync.status = "ok"
    /\ Len(sync.parser.arena.values) = 3
    /\ Len(sync.parser.arena.keys) = 2
    /\ sync.value.kind = ObjectKind(<<0, 2>>, <<1, 3>>)
    /\ sync.parser.arena.values[2].kind = ArrayKind(<<0, 1>>)
    /\ sync.parser.arena.values[3].kind = ObjectKind(<<0, 0>>, <<0, 0>>)
    /\ NodesOf(src) = 4

\* C23: a step that meets a text the tokenizer does not recognise returns
\* Err with token None, the span of the failed token, and the context and
\* the open stack as they were before it; and a parse that has returned Err
\* takes no further step: nothing of it changes, no token after is read.
C23_LexicalError ==
    [][/\ (sync.status = "running" /\ sync' # sync) =>
             LexicalFailure(src, sync.parser, sync.context, sync')
       /\ (polling /\ i' = i + 1) =>
             /\ LexicalFailure(src, async.parser, local, async')
             /\ async'.status = "err" => ~polling'
       /\ sync.status = "err" => sync' = sync
       /\ async.status = "err" => (async' = async /\ ~polling')]_vars

\* {"a":[1,{"b" /: both parses ended Err at the `/` after the white space,
\* in context Key, with the three open containers on the stack of the error,
\* and the token after it was never read.
C23_Witness ==
    /\ Done /\ sync.status = "err" /\ async.status = "err"
    /\ sync.error = async.error
    /\ sync.error.token = NoToken
    /\ sync.error.context.tag = "Key"
    /\ Len(sync.error.stack) = 3
    /\ sync.error.span[2] = sync.error.span[1] + 1
    /\ src[sync.error.span[1]] = B(" ")
    /\ src[sync.error.span[1] + 1] = B("/")
    /\ sync.parser.pos < Len(src)
    /\ async.parser.pos = sync.parser.pos

\* C24 as claimed: the step that makes a parse return Err leaves arena.keys,
\* arena.values, the table and the scratch as they were before it.
C24_FailingStepLeavesArena ==
    [][/\ (sync.status = "running" /\ sync'.status = "err") =>
             sync'.parser.arena = sync.parser.arena
       /\ (async.status = "running" /\ async'.status = "err") =>
             async'.parser.arena = async.parser.arena]_vars

\* C25 as claimed: after every successful step the watermarks of the open
\* stack do not decrease from bottom to top and none exceeds the length of
\* its working stack, the entries of value_stack above the top container's
\* watermark are the children of that container that are complete, and a
\* parse that returned Ok has left its three stacks empty.
C25_CompletedChildrenAboveWatermark ==
    [][/\ (sync' # sync /\ sync'.status # "err") => StacksHold(sync', FALSE)
       /\ (polling /\ i' = i + 1 /\ async'.status # "err") =>
             StacksHold(async', FALSE)]_vars

\* C25, amended: as above, the entries of value_stack above the top
\* container's watermark being the complete children of that container that a
\* comma follows; the child completed last stays in the context until its
\* comma or the close of the container.
C25_PushedChildrenAboveWatermark ==
    [][/\ (sync' # sync /\ sync'.status # "err") => StacksHold(sync', TRUE)
       /\ (polling /\ i' = i + 1 /\ async'.status # "err") =>
             StacksHold(async', TRUE)]_vars

\* [1,{"a":[1,1 read so far: the watermarks of the outer array, the object
\* and the inner array are 0, 1 and 1; above the inner array's watermark lies
\* its first child, pushed by the comma, while its second child, the leaf just
\* read, is the context.
C25_Witness ==
    /\ sync.status = "running"
    /\ Len(sync.parser.stack) = 3
    /\ sync.parser.stack[1].kind = "Array" /\ sync.parser.stack[1].vindex = 0
    /\ sync.parser.stack[2].kind = "Object" /\ sync.parser.stack[2].vindex = 1
    /\ sync.parser.stack[3].kind = "Array" /\ sync.parser.stack[3].vindex = 1
    /\ Len(sync.parser.key_stack) = 1
    /\ sync.parser.value_stack
          = <<Value(<<1, 2>>, LeafKind("Number")), Value(<<9, 10>>, LeafKind("Number"))>>
    /\ sync.context = ValueContext(<<11, 12>>, LeafKind("Number"))

\* C26: every parse returns.  On an input of T tokens parse has made at most
\* T + 1 calls of step when it returns, each having read exactly one token or
\* met the end of the input; parse_async, polled again after each wake, has
\* made (polls - 1) * YIELD_AFTER + i calls of step, returns Ready within
\* ceil((T + 1) / YIELD_AFTER) polls, and has woken its waker whenever it
\* returns Pending.
C26_EveryParseTerminates ==
    /\ <>Done
    /\ [](LET T == Len(TokensOf(src)) IN
          /\ StepsOf(sync) <= T + 1
          /\ StepsOf(async) <= T + 1
          /\ polls <= CeilDiv(T + 1, YIELD_AFTER)
          /\ polls >= 1 => StepsOf(async) = (polls - 1) * YIELD_AFTER + i)
    /\ [][/\ (sync.status = "running" /\ sync' # sync) =>
                ReadsOne(src, sync.parser, sync')
          /\ (polling /\ i' = i + 1) => ReadsOne(src, async.parser, async')
          /\ (polling /\ ~polling' /\ async'.status = "running") => woken']_vars

\* The whole document, 17 tokens, ended Ok in both drivers: 18 calls of step
\* each, the last of them the second of the ninth poll.
C26_Witness ==
    /\ Done /\ sync.status = "ok" /\ async.status = "ok"
    /\ src = Concat(DocumentPieces)
    /\ StepsOf(sync) = Len(DocumentPieces) + 1
    /\ StepsOf(async) = Len(DocumentPieces) + 1
    /\ polls = CeilDiv(Len(DocumentPieces) + 1, YIELD_AFTER)
    /\ i = Len(DocumentPieces) + 1 - (polls - 1) * YIELD_AFTER

=============================================================================
